---- MODULE Spec2Model ----
(***************************************************************************)
(* A model of the physics core of physics_game_2D: the spatial hash       *)
(* LookUp, the shared material properties, the collision checks, the      *)
(* rigid-body simulator and the per-frame driver Game::physics_update.    *)
(*                                                                         *)
(* f32 values are modelled as exact extended rationals <<n, d>> in lowest *)
(* terms with d >= 0: d = 0 encodes the IEEE specials, <<1, 0>> = +inf,    *)
(* <<-1, 0>> = -inf and <<0, 0>> = NaN. Rounding is not modelled.          *)
(***************************************************************************)
EXTENDS Integers, Sequences, FiniteSets, TLC

VARIABLES lookup, lkop, sel, circ, poly,
          rb_bodies, rb_collisions, rb_simulator, game_config, rbrun,
          fluid_system, game, ser

vars == <<lookup, lkop, sel, circ, poly,
          rb_bodies, rb_collisions, rb_simulator, game_config, rbrun,
          fluid_system, game, ser>>

(***************************************************************************)
(* Extended rational arithmetic (the model of f32). With d = 0 for the     *)
(* specials, cross-multiplication yields the IEEE results: inf * 0 = NaN,  *)
(* x / 0 = +-inf, 0 / 0 = NaN, inf - inf = NaN.                            *)
(***************************************************************************)
Abs(i) == IF i < 0 THEN -i ELSE i

RECURSIVE Gcd(_, _)
Gcd(a, b) == IF b = 0 THEN a ELSE Gcd(b, a % b)

\* n / d divided through by g, their greatest common divisor (0 only for 0 / 0).
Lowest(n, d, g) == IF g = 0 THEN <<0, 0>> ELSE <<n \div g, d \div g>>

\* The value n / d for d >= 0.
Frac(n, d) == Lowest(n, d, Gcd(d, IF n < 0 THEN -n ELSE n))

Rat(n, d) == IF d < 0 THEN Frac(-n, -d) ELSE Frac(n, d)

I(n) == <<n, 1>>

NaN == <<0, 0>>

Inf == <<1, 0>>

Half == <<1, 2>>

IsNaN(a) == a = NaN

RNeg(a) == <<-a[1], a[2]>>

\* Sums over the least common denominator, g being the gcd of the two denominators.
AddOver(a, b, g) ==
    Frac(a[1] * (b[2] \div g) + b[1] * (a[2] \div g), (a[2] \div g) * b[2])

RAdd(a, b) ==
    IF a[2] = 0 \/ b[2] = 0
    THEN (IF a = b THEN a ELSE Frac(a[1] * b[2] + b[1] * a[2], 0))
    ELSE AddOver(a, b, Gcd(a[2], b[2]))

RSub(a, b) == RAdd(a, <<-b[1], b[2]>>)

\* Products reduced crosswise before multiplying: g is the gcd of a's numerator and
\* b's denominator, h of b's numerator and a's denominator (0 only for 0 * inf, NaN).
MulOver(a, b, g, h) ==
    IF g = 0 \/ h = 0 THEN <<0, 0>>
    ELSE <<(a[1] \div g) * (b[1] \div h), (a[2] \div h) * (b[2] \div g)>>

RMul(a, b) ==
    MulOver(a, b, Gcd(b[2], IF a[1] < 0 THEN -a[1] ELSE a[1]),
                  Gcd(a[2], IF b[1] < 0 THEN -b[1] ELSE b[1]))

RDiv(a, b) == RMul(a, IF b[1] < 0 THEN <<-b[2], -b[1]>> ELSE <<b[2], b[1]>>)

REq(a, b) == a = b /\ a # NaN

\* Whole parts are compared first, which keeps the products small.
RLt(a, b) ==
    IF a[2] = 0 \/ b[2] = 0
    THEN a[1] * b[2] < b[1] * a[2] \/ (a[1] < 0 /\ b[1] > 0 /\ a[2] = b[2])
    ELSE IF a[1] \div a[2] # b[1] \div b[2] THEN a[1] \div a[2] < b[1] \div b[2]
    ELSE (a[1] % a[2]) * b[2] < (b[1] % b[2]) * a[2]

RGt(a, b) == RLt(b, a)

RLe(a, b) == RLt(a, b) \/ (a = b /\ a # NaN)

RGe(a, b) == RLe(b, a)

RAbs(a) == <<Abs(a[1]), a[2]>>

\* f32::MAX and f32::MIN, which exceed every other value of the model.
F32_MAX == Inf

F32_MIN == <<-1, 0>>

\* f32::min / f32::max: the other operand when one is NaN.
RMin(a, b) == IF a = NaN THEN b ELSE IF b = NaN THEN a ELSE IF RLt(b, a) THEN b ELSE a

RMax(a, b) == IF a = NaN THEN b ELSE IF b = NaN THEN a ELSE IF RLt(a, b) THEN b ELSE a

\* f32::sqrt, exact: defined on the squares of rationals only.
RECURSIVE FloorSqrt(_, _, _)
FloorSqrt(n, lo, hi) ==
    IF lo >= hi THEN lo
    ELSE IF ((lo + hi + 1) \div 2) * ((lo + hi + 1) \div 2) <= n
    THEN FloorSqrt(n, (lo + hi + 1) \div 2, hi)
    ELSE FloorSqrt(n, lo, ((lo + hi + 1) \div 2) - 1)

ISqrt(n) == CHOOSE k \in {FloorSqrt(n, 0, IF n < 46340 THEN n ELSE 46340)} : k * k = n

\* The square root of -inf and of NaN is NaN, that of +inf is +inf.
RSqrt(a) == IF a[1] < 0 THEN NaN ELSE <<ISqrt(a[1]), ISqrt(a[2])>>

\* f32::clamp
RClamp(a, lo, hi) == IF RLt(a, lo) THEN lo ELSE IF RLt(hi, a) THEN hi ELSE a

\* `x as usize` / `x as i32` of a finite non-negative float: truncation; NaN gives 0.
RTrunc(a) ==
    IF a[2] = 0 THEN 0
    ELSE IF a[1] >= 0 THEN a[1] \div a[2] ELSE -((-a[1]) \div a[2])

\* `x % y > 0.0` of LookUp::new, for y > 0 and x >= 0.
RRemPositive(a, b) == RGt(RSub(a, RMul(I(RTrunc(RDiv(a, b))), b)), I(0))

(***************************************************************************)
(* Vector2<f32>                                                            *)
(***************************************************************************)
V(x, y) == [x |-> x, y |-> y]

VI(x, y) == [x |-> <<x, 1>>, y |-> <<y, 1>>]

zero == VI(0, 0)

VAdd(a, b) == [x |-> RAdd(a.x, b.x), y |-> RAdd(a.y, b.y)]

VSub(a, b) == [x |-> RSub(a.x, b.x), y |-> RSub(a.y, b.y)]

\* Vector2 * f32
VMul(a, k) == [x |-> RMul(a.x, k), y |-> RMul(a.y, k)]

\* Vector2 / f32
VDiv(a, k) == [x |-> RDiv(a.x, k), y |-> RDiv(a.y, k)]

length_squared(a) == RAdd(RMul(a.x, a.x), RMul(a.y, a.y))

length(a) == RSqrt(length_squared(a))

normalized(a) == VDiv(a, length(a))

dot(a, b) == RAdd(RMul(a.x, b.x), RMul(a.y, b.y))

cross(a, b) == RSub(RMul(a.x, b.y), RMul(a.y, b.x))

\* The perpendicular vector (-y, x).
normal(a) == [x |-> <<-a.y[1], a.y[2]>>, y |-> a.x]

is_zero(a) == a = zero

(***************************************************************************)
(* Option and Vec::get                                                     *)
(***************************************************************************)
None == [some |-> FALSE]

Some(v) == [some |-> TRUE, val |-> v]

\* `i as usize` of an i32: a negative value wraps to a value above every Vec length.
UsizeWrap == 1000000

AsUsize(i) == IF i < 0 THEN UsizeWrap + i ELSE i

\* Vec::get / Vec::get_mut on a 0-based index.
VecGet(v, i) == IF i >= 0 /\ i < Len(v) THEN Some(v[i + 1]) ELSE None

(***************************************************************************)
(* LookUp<T>                                                               *)
(***************************************************************************)
CellSize == 3

MaxItems == 2

\* The number of cells along one side: extent / cell_size, one more if a remainder is left.
CountCells(extent, cell_size) ==
    IF RRemPositive(extent, cell_size)
    THEN RTrunc(RDiv(extent, cell_size)) + 1
    ELSE RTrunc(RDiv(extent, cell_size))

EmptyCells(rows_count, cols_count) == [r \in 1..rows_count |-> [c \in 1..cols_count |-> <<>>]]

LookUp_new(width, height, cell_size) ==
    [cells |-> EmptyCells(CountCells(height, cell_size), CountCells(width, cell_size)),
     width |-> width, height |-> height, cell_size |-> cell_size]

LookUp_clear(lk) ==
    [lk EXCEPT !.cells = [r \in 1..Len(lk.cells) |-> [c \in 1..Len(lk.cells[r]) |-> <<>>]]]

\* Mutant: the bounds test forgets the upper edges.
OutOfBounds_NoUpperEdge(lk, pos) == RLt(pos.x, I(0)) \/ RLt(pos.y, I(0))

OutOfBounds(lk, pos) ==
    \/ RLt(pos.x, I(0))
    \/ RGt(pos.x, lk.width)
    \/ RLt(pos.y, I(0))
    \/ RGt(pos.y, lk.height)

\* cells.get(row).and_then(|row| row.get(col))
AndThenGet(r, col) == IF r.some THEN VecGet(r.val, col) ELSE None

CellGet(lk, row, col) == AndThenGet(VecGet(lk.cells, row), col)

CellIndex(lk, row, col) == IF CellGet(lk, row, col).some THEN Some(<<row, col>>) ELSE None

\* The cell `insert` reaches through get_mut(row).and_then(get_mut(col)).
InsertTarget(lk, pos) ==
    CellIndex(lk, RTrunc(RDiv(pos.y, lk.cell_size)), RTrunc(RDiv(pos.x, lk.cell_size)))

PushBack(lk, t, item) ==
    IF t.some THEN [lk EXCEPT !.cells[t.val[1] + 1][t.val[2] + 1] = Append(@, item)] ELSE lk

insert(lk, pos, item) ==
    IF OutOfBounds(lk, pos) THEN lk ELSE PushBack(lk, InsertTarget(lk, pos), item)

\* The two nested loops over the block of `side` by `side` cells from (first_row, first_col),
\* from its k-th cell on: the (row, col) of every cell for which
\* get(row).and_then(get(col)) is Some.
RECURSIVE PushCells(_, _, _, _, _)
PushCells(lk, first_row, first_col, side, k) ==
    IF k > side * side THEN <<>>
    ELSE (IF CellGet(lk, AsUsize(first_row + ((k - 1) \div side)),
                         AsUsize(first_col + ((k - 1) % side))).some
          THEN <<(<<AsUsize(first_row + ((k - 1) \div side)),
                    AsUsize(first_col + ((k - 1) % side))>>)>>
          ELSE <<>>) \o PushCells(lk, first_row, first_col, side, k + 1)

BlockCells(lk, off, mid_col, mid_row) ==
    PushCells(lk, mid_row - off, mid_col - off, 2 * off + 1, 1)

\* Mutant: the block reaches one cell further than radius / cell_size.
NeighborCells_OneCellWider(lk, position, radius) ==
    IF OutOfBounds(lk, position) THEN <<>>
    ELSE BlockCells(lk, RTrunc(RDiv(radius, lk.cell_size)) + 1,
                    RTrunc(RDiv(position.x, lk.cell_size)),
                    RTrunc(RDiv(position.y, lk.cell_size)))

\* The (row, col) of every cell for which get(row).and_then(get(col)) is Some, in loop order.
NeighborCells(lk, position, radius) ==
    IF OutOfBounds(lk, position) THEN <<>>
    ELSE BlockCells(lk, RTrunc(RDiv(radius, lk.cell_size)),
                    RTrunc(RDiv(position.x, lk.cell_size)),
                    RTrunc(RDiv(position.y, lk.cell_size)))

CellLists(lk, found) == [k \in 1..Len(found) |-> lk.cells[found[k][1] + 1][found[k][2] + 1]]

\* The LinkedLinkedList built by get_neighbors_in_radius: the cells' lists, in push order.
get_neighbors_in_radius(lk, position, radius) ==
    CellLists(lk, NeighborCells(lk, position, radius))

get_immediate_neighbors(lk, position) == get_neighbors_in_radius(lk, position, lk.cell_size)

\* LLIterator::next, run to exhaustion: the items a `for` over lll.iter() sees, in order.
RECURSIVE LLIterator_collect(_, _, _)
LLIterator_collect(outer, hasInner, inner) ==
    IF hasInner /\ inner # <<>>
    THEN <<Head(inner)>> \o LLIterator_collect(outer, TRUE, Tail(inner))
    ELSE IF outer # <<>>
    THEN LLIterator_collect(Tail(outer), TRUE, Head(outer))
    ELSE <<>>

LLItems(lll) == LLIterator_collect(lll, FALSE, <<>>)

SeqToSet(s) == {s[i] : i \in 1..Len(s)}

RECURSIVE RowLen(_, _)
RowLen(r, c) == IF c > Len(r) THEN 0 ELSE Len(r[c]) + RowLen(r, c + 1)

RECURSIVE SumLens(_, _)
SumLens(rows, r) == IF r > Len(rows) THEN 0 ELSE RowLen(rows[r], 1) + SumLens(rows, r + 1)

ItemCount(lk) == SumLens(lk.cells, 1)

(***************************************************************************)
(* SharedProperty<f32> and SharedPropertySelection                         *)
(***************************************************************************)
Pass == [pass |-> TRUE]

Value(v) == [pass |-> FALSE, val |-> v]

SelectionModes == {"Multiply", "Average", "Min", "Max"}

\* Mutant: Average forgets the factor 0.5.
select_SumForAverage(self, a, b) ==
    IF ~a.pass /\ ~b.pass THEN
        CASE self = "Multiply" -> RMul(a.val, b.val)
          [] self = "Average" -> RAdd(a.val, b.val)
          [] self = "Min" -> IF RLt(a.val, b.val) THEN a.val ELSE b.val
          [] self = "Max" -> IF RGt(a.val, b.val) THEN a.val ELSE b.val
    ELSE IF ~a.pass THEN a.val
    ELSE IF ~b.pass THEN b.val
    ELSE I(0)

select(self, a, b) ==
    IF ~a.pass /\ ~b.pass THEN
        CASE self = "Multiply" -> RMul(a.val, b.val)
          [] self = "Average" -> RMul(RAdd(a.val, b.val), Half)
          [] self = "Min" -> IF RLt(a.val, b.val) THEN a.val ELSE b.val
          [] self = "Max" -> IF RGt(a.val, b.val) THEN a.val ELSE b.val
    ELSE IF ~a.pass THEN a.val
    ELSE IF ~b.pass THEN b.val
    ELSE I(0)

(***************************************************************************)
(* BodyState and RigidBody                                                 *)
(***************************************************************************)
DEFAULT_ELASTICITY == <<2, 5>>

DEFAULT_STATIC_FRICTION == <<3, 10>>

DEFAULT_DYNAMIC_FRICTION == <<1, 5>>

Color_rgba(r, g, b, a) ==
    [r |-> Frac(r, 255), g |-> Frac(g, 255), b |-> Frac(b, 255), a |-> Frac(a, 255)]

Color_rgb(r, g, b) == Color_rgba(r, g, b, 255)

Color_default == [r |-> I(0), g |-> I(0), b |-> I(0), a |-> I(0)]

BodyState_new(position, mass, behaviour) ==
    [position |-> position, velocity |-> zero, angular_velocity |-> I(0),
     orientation |-> I(0), behaviour |-> behaviour, mass |-> mass,
     moment_of_inertia |-> mass, elasticity |-> Value(DEFAULT_ELASTICITY),
     static_friction |-> Value(DEFAULT_STATIC_FRICTION),
     dynamic_friction |-> Value(DEFAULT_DYNAMIC_FRICTION),
     color |-> Color_rgb(0, 0, 0),
     accumulated_force |-> zero, accumulated_torque |-> I(0)]

set_mass(state, new_mass) ==
    [state EXCEPT !.moment_of_inertia = RMul(RDiv(state.moment_of_inertia, state.mass), new_mass),
                  !.mass = new_mass]

\* BodyState::mass(): infinite for a Static body.
BodyState_mass(state) == IF state.behaviour = "Static" THEN Inf ELSE state.mass

BodyState_moment_of_inertia(state) ==
    IF state.behaviour = "Static" THEN Inf ELSE state.moment_of_inertia

add_force(state, force) ==
    [state EXCEPT !.accumulated_force = VAdd(state.accumulated_force, force)]

add_force_accumulation(state, force_accumulation) ==
    [state EXCEPT !.accumulated_force = VAdd(state.accumulated_force, force_accumulation.force),
                  !.accumulated_torque = RAdd(state.accumulated_torque, force_accumulation.torque)]

\* runge_kutta on an f32, one definition per `let`: k1 is the rate of change itself.
RungeKuttaSum(current_value, step, k1, k2, k3, k4) ==
    RAdd(current_value,
         RMul(RAdd(RAdd(RAdd(k1, RMul(k2, I(2))), RMul(k3, I(2))), k4), RDiv(step, I(6))))

RungeKuttaK4(current_value, step, rate_of_change, k2, k3) ==
    RungeKuttaSum(current_value, step, rate_of_change, k2, k3,
                  RAdd(rate_of_change, RMul(k3, step)))

RungeKuttaK3(current_value, step, rate_of_change, k2) ==
    RungeKuttaK4(current_value, step, rate_of_change, k2,
                 RAdd(rate_of_change, RMul(RMul(k2, Half), step)))

runge_kutta(current_value, step, rate_of_change) ==
    RungeKuttaK3(current_value, step, rate_of_change,
                 RAdd(rate_of_change, RMul(RMul(rate_of_change, Half), step)))

\* runge_kutta on a Vector2<f32>.
runge_kutta_v(current_value, step, rate_of_change) ==
    [x |-> runge_kutta(current_value.x, step, rate_of_change.x),
     y |-> runge_kutta(current_value.y, step, rate_of_change.y)]

\* The two halves of apply_accumulated_forces.
ApplyForce(state, time_step) ==
    IF ~is_zero(state.accumulated_force)
    THEN [state EXCEPT
              !.velocity = runge_kutta_v(state.velocity, time_step,
                                         VDiv(state.accumulated_force, state.mass)),
              !.accumulated_force = zero]
    ELSE state

ApplyTorque(state, time_step) ==
    IF ~REq(state.accumulated_torque, I(0))
    THEN [state EXCEPT
              !.angular_velocity =
                  runge_kutta(state.angular_velocity, time_step,
                              RDiv(state.accumulated_torque, state.moment_of_inertia)),
              !.accumulated_torque = I(0)]
    ELSE state

apply_accumulated_forces(state, time_step) ==
    ApplyTorque(ApplyForce(state, time_step), time_step)

move_by_velocity(state, time_step) ==
    [state EXCEPT !.position = runge_kutta_v(state.position, time_step, state.velocity),
                  !.orientation = runge_kutta(state.orientation, time_step,
                                              state.angular_velocity)]

Circle_calculate_moment_of_inertia(mass, radius) ==
    RMul(RMul(Half, mass), RMul(radius, radius))

\* RigidBody::new_circle: the state has the mass 1000.
new_circle(position, radius, behaviour) ==
    [kind |-> "Circle",
     state |-> [BodyState_new(position, I(1000), behaviour) EXCEPT
                    !.moment_of_inertia = Circle_calculate_moment_of_inertia(I(1000), radius)],
     radius |-> radius]

(***************************************************************************)
(* Line                                                                    *)
(***************************************************************************)
LineOf(start, end, vector) ==
    [start |-> start, end |-> end, vector |-> vector,
     unit_normal |-> normal(normalized(vector))]

Line_new(start, end) == LineOf(start, end, VSub(end, start))

closest_point(line, point) ==
    VAdd(line.start,
         VMul(line.vector,
              RClamp(RDiv(dot(line.vector, VSub(point, line.start)),
                          length_squared(line.vector)),
                     I(0), I(1))))

middle(line) == VMul(VAdd(line.start, line.end), Half)

(***************************************************************************)
(* PointsProjection                                                        *)
(***************************************************************************)
PointsProjection_default == [min |-> F32_MAX, max |-> F32_MIN]

PointsProjection_add(proj, value) ==
    [min |-> RMin(proj.min, value), max |-> RMax(proj.max, value)]

\* Mutant: the larger of the two end-to-end distances.
get_overlap_LargerDistance(self, other) ==
    IF RGt(self.max, other.min) /\ RGt(other.max, self.min)
    THEN Some(RMax(RAbs(RSub(self.min, other.max)), RAbs(RSub(self.max, other.min))))
    ELSE None

get_overlap(self, other) ==
    IF RGt(self.max, other.min) /\ RGt(other.max, self.min)
    THEN Some(RMin(RAbs(RSub(self.min, other.max)), RAbs(RSub(self.max, other.min))))
    ELSE None

contains(proj, value) == RGe(value, proj.min) /\ RLe(value, proj.max)

(***************************************************************************)
(* Polygon                                                                 *)
(***************************************************************************)
\* sin and cos are exact at orientation 0 only; a point of a rotated polygon is kept as
\* the unevaluated rotation.
local_point_to_global(self, point) ==
    IF self.state.orientation = I(0)
    THEN VAdd(point, self.state.position)
    ELSE [rotated_by |-> self.state.orientation, point |-> point,
          position |-> self.state.position]

update_inner_values(self) ==
    IF self.kind = "Polygon"
    THEN [self EXCEPT !.global_points =
              [i \in 1..Len(self.points) |-> local_point_to_global(self, self.points[i])]]
    ELSE self

\* global_lines is refreshed together with global_points.
global_lines(self) ==
    [i \in 1..Len(self.global_points) |->
        Line_new(self.global_points[i], self.global_points[(i % Len(self.global_points)) + 1])]

lines_normal_pointing_outside(self, line) ==
    IF RLe(dot(line.unit_normal, VSub(self.state.position, middle(line))), I(0))
    THEN line.unit_normal
    ELSE VMul(line.unit_normal, I(-1))

RECURSIVE ProjectPoints(_, _, _)
ProjectPoints(points, axis, proj) ==
    IF points = <<>> THEN proj
    ELSE ProjectPoints(Tail(points), axis,
                       PointsProjection_add(proj, dot(Head(points), axis)))

project_onto_axis(self, axis) ==
    ProjectPoints(self.global_points, axis, PointsProjection_default)

OutsideNormals(self, lines) ==
    [i \in 1..Len(lines) |-> lines_normal_pointing_outside(self, lines[i])]

projection_axes(self) == OutsideNormals(self, global_lines(self))

\* The loop of find_colliding_line; BestLineStep is its body once `dot` is known.
RECURSIVE BestLine(_, _, _, _, _)
BestLineStep(self, lines, nrm, best_dot, best_line, d) ==
    IF RGt(d, best_dot)
    THEN BestLine(self, Tail(lines), nrm, d, Head(lines))
    ELSE BestLine(self, Tail(lines), nrm, best_dot, best_line)

BestLine(self, lines, nrm, best_dot, best_line) ==
    IF lines = <<>> THEN best_line
    ELSE BestLineStep(self, lines, nrm, best_dot, best_line,
                      dot(nrm, lines_normal_pointing_outside(self, Head(lines))))

BestOfLines(self, lines, nrm) == BestLine(self, lines, nrm, F32_MIN, lines[1])

find_colliding_line(self, nrm) == BestOfLines(self, global_lines(self), nrm)

RECURSIVE SumPoints(_, _)
SumPoints(points, acc) ==
    IF points = <<>> THEN acc ELSE SumPoints(Tail(points), VAdd(acc, Head(points)))

center_of_mass(self) ==
    IF self.kind = "Circle" THEN self.state.position
    ELSE VDiv(SumPoints(self.global_points, zero), I(Len(self.global_points)))

\* The loop of calculate_moment_of_inertia from the i-th point on: `a` of the i-th turn,
\* the sum of a * (b + c + d) and the sum of a.
InertiaA(points, i) == cross(points[(i % Len(points)) + 1], points[i])

InertiaBCD(points, i) ==
    RAdd(RAdd(dot(points[i], points[i]), dot(points[i], points[(i % Len(points)) + 1])),
         dot(points[(i % Len(points)) + 1], points[(i % Len(points)) + 1]))

RECURSIVE InertiaSum(_, _)
InertiaSum(points, i) ==
    IF i > Len(points) THEN I(0)
    ELSE RAdd(RMul(InertiaA(points, i), InertiaBCD(points, i)), InertiaSum(points, i + 1))

RECURSIVE InertiaSubSum(_, _)
InertiaSubSum(points, i) ==
    IF i > Len(points) THEN I(0)
    ELSE RAdd(InertiaA(points, i), InertiaSubSum(points, i + 1))

calculate_moment_of_inertia(points, mass) ==
    RMul(RMul(mass, RDiv(InertiaSum(points, 1), RMul(I(6), InertiaSubSum(points, 1)))), I(10))

\* RigidBody::new_polygon: the state has the mass 1000.
new_polygon(position, points, behaviour) ==
    update_inner_values(
        [kind |-> "Polygon",
         state |-> [BodyState_new(position, I(1000), behaviour) EXCEPT
                        !.moment_of_inertia = calculate_moment_of_inertia(points, I(1000))],
         points |-> points, global_points |-> <<>>])

RectanglePoints(half_w, half_h) ==
    <<V(RNeg(half_w), RNeg(half_h)), V(half_w, RNeg(half_h)),
      V(half_w, half_h), V(RNeg(half_w), half_h)>>

\* Rectangle!(pos; width, height; behaviour)
Rectangle(pos, width, height, behaviour) ==
    new_polygon(pos, RectanglePoints(RMul(width, Half), RMul(height, Half)), behaviour)

\* find_contact_points, from its last statement back to its first: the points kept,
\* the clipping of the incident line, the projections (of the dot products of the lines'
\* ends with ref_vec), and the four dot products.
ContactPoints(seperating_axis, ref_body_proj, point_a, point_b) ==
    (IF contains(ref_body_proj, dot(seperating_axis, point_a)) THEN <<point_a>> ELSE <<>>)
    \o (IF contains(ref_body_proj, dot(seperating_axis, point_b)) THEN <<point_b>> ELSE <<>>)

ClipIncident(seperating_axis, ref_body_proj, inc_start, inc_end, ref_proj, inc_proj) ==
    ContactPoints(seperating_axis, ref_body_proj,
        IF RLt(inc_proj.min, ref_proj.min)
        THEN VAdd(inc_start,
                  VMul(VSub(inc_end, inc_start),
                       RDiv(RSub(ref_proj.min, inc_proj.min),
                            RSub(inc_proj.max, inc_proj.min))))
        ELSE inc_start,
        IF RGt(inc_proj.max, ref_proj.max)
        THEN VAdd(inc_end,
                  VMul(VSub(inc_start, inc_end),
                       RDiv(RSub(inc_proj.max, ref_proj.max),
                            RSub(inc_proj.max, inc_proj.min))))
        ELSE inc_end)

ProjectLines(inc_line, seperating_axis, ref_body_proj, ref_start, ref_end, inc_start, inc_end) ==
    ClipIncident(seperating_axis, ref_body_proj,
        IF RLt(inc_start, inc_end) THEN inc_line.start ELSE inc_line.end,
        IF RLt(inc_start, inc_end) THEN inc_line.end ELSE inc_line.start,
        PointsProjection_add(PointsProjection_add(PointsProjection_default, ref_start),
                             ref_end),
        PointsProjection_add(PointsProjection_add(PointsProjection_default, inc_start),
                             inc_end))

DotLineEnds(ref_line, inc_line, seperating_axis, ref_body_proj, ref_vec) ==
    ProjectLines(inc_line, seperating_axis, ref_body_proj,
                 dot(ref_vec, ref_line.start), dot(ref_vec, ref_line.end),
                 dot(ref_vec, inc_line.start), dot(ref_vec, inc_line.end))

find_contact_points(ref_line, inc_line, seperating_axis, ref_body_proj) ==
    DotLineEnds(ref_line, inc_line, seperating_axis, ref_body_proj,
                normalized(ref_line.vector))

(***************************************************************************)
(* Collision checks                                                        *)
(***************************************************************************)
\* circle_circle_collision from `let normal` on.
CircleData(this, nrm, penetration) ==
    Some([normal |-> nrm, penetration |-> penetration,
          collision_points |->
              <<VAdd(this.state.position,
                     VMul(nrm, RSub(this.radius, RMul(penetration, Half))))>>])

CirclesTouching(this, other, this_to_other) ==
    CircleData(this, normalized(this_to_other),
               RSub(RAdd(this.radius, other.radius), length(this_to_other)))

\* Mutant: tangent circles are told apart (<= in place of <).
CirclesWithin_TangentApart(this, other, this_to_other, radius_sum) ==
    IF RLe(RMul(radius_sum, radius_sum), length_squared(this_to_other)) THEN None
    ELSE CirclesTouching(this, other, this_to_other)

circle_circle_collision_TangentApart(this, other) ==
    CirclesWithin_TangentApart(this, other, VSub(other.state.position, this.state.position),
                               RAdd(this.radius, other.radius))

CirclesWithin(this, other, this_to_other, radius_sum) ==
    IF RLt(RMul(radius_sum, radius_sum), length_squared(this_to_other)) THEN None
    ELSE CirclesTouching(this, other, this_to_other)

circle_circle_collision(this, other) ==
    CirclesWithin(this, other, VSub(other.state.position, this.state.position),
                  RAdd(this.radius, other.radius))

\* One SAT loop of polygon_polygon_collision over the filtered axes of one body; `other_s`
\* tells the loop over the other body's axes. `separated` is the early return None.
\* TestAxis is the body of the loop once the overlap on the axis is known.
RECURSIVE TestAxes(_, _, _, _, _)
TestAxis(axes, this, other, acc, other_s, overlap) ==
    IF ~overlap.some THEN [acc EXCEPT !.separated = TRUE]
    ELSE IF RLt(overlap.val, acc.min_penetration)
    THEN TestAxes(Tail(axes), this, other,
                  [acc EXCEPT !.min_penetration = overlap.val, !.min_axis = Head(axes),
                              !.axis_is_from_other = acc.axis_is_from_other \/ other_s],
                  other_s)
    ELSE TestAxes(Tail(axes), this, other, acc, other_s)

TestAxes(axes, this, other, acc, other_s) ==
    IF acc.separated \/ axes = <<>> THEN acc
    ELSE TestAxis(axes, this, other, acc, other_s,
                  get_overlap(project_onto_axis(this, Head(axes)),
                              project_onto_axis(other, Head(axes))))

\* The projection axes of a body that point towards the other body.
FacingAxes(self, to_other) ==
    SelectSeq(projection_axes(self), LAMBDA axis : RGe(dot(axis, to_other), I(0)))

NoAxis ==
    [separated |-> FALSE, min_penetration |-> F32_MAX, min_axis |-> zero,
     axis_is_from_other |-> FALSE]

\* polygon_polygon_collision after the two loops, from its last statement back: the
\* collision data, the choice of the reference line, the two colliding lines, the sign
\* of the axis.
ContactsOf(this, other, penetration, min_axis, line_a, line_b, ref_is_a) ==
    Some([normal |-> min_axis, penetration |-> penetration,
          collision_points |->
              find_contact_points(IF ref_is_a THEN line_a ELSE line_b,
                                  IF ref_is_a THEN line_b ELSE line_a,
                                  min_axis,
                                  project_onto_axis(IF ref_is_a THEN this ELSE other,
                                                    min_axis))])

ReferenceLine(this, other, penetration, min_axis, line_a, line_b) ==
    ContactsOf(this, other, penetration, min_axis, line_a, line_b,
               RLe(RAbs(dot(normalized(line_a.vector), min_axis)),
                   RAbs(dot(normalized(line_b.vector), min_axis))))

CollidingLines(this, other, penetration, min_axis) ==
    ReferenceLine(this, other, penetration, min_axis,
                  find_colliding_line(this, min_axis),
                  find_colliding_line(other, VMul(min_axis, I(-1))))

SeparatingAxis(this, other, tested) ==
    IF tested.separated THEN None
    ELSE CollidingLines(this, other, tested.min_penetration,
                        IF tested.axis_is_from_other
                        THEN VMul(tested.min_axis, I(-1))
                        ELSE tested.min_axis)

polygon_polygon_collision(this, other) ==
    SeparatingAxis(this, other,
        TestAxes(FacingAxes(other, VSub(this.state.position, other.state.position)),
                 this, other,
                 TestAxes(FacingAxes(this, VSub(other.state.position, this.state.position)),
                          this, other, NoAxis, FALSE),
                 TRUE))

\* The loop of polygon_circle_collision over the lines; CloserLine is its body once the
\* closest point of the line and its squared distance are known.
RECURSIVE ClosestOfLines(_, _, _, _)
CloserLine(polygon, lines, circle_center, acc, point, dist_sq) ==
    IF RLt(dist_sq, acc.min_distance_sq)
    THEN ClosestOfLines(polygon, Tail(lines), circle_center,
             [min_distance_sq |-> dist_sq, min_point |-> point,
              normal |-> lines_normal_pointing_outside(polygon, Head(lines))])
    ELSE ClosestOfLines(polygon, Tail(lines), circle_center, acc)

PointOfLine(polygon, lines, circle_center, acc, point) ==
    CloserLine(polygon, lines, circle_center, acc, point,
               length_squared(VSub(point, circle_center)))

ClosestOfLines(polygon, lines, circle_center, acc) ==
    IF lines = <<>> THEN acc
    ELSE PointOfLine(polygon, lines, circle_center, acc,
                     closest_point(Head(lines), circle_center))

CircleAgainstLine(circle, best) ==
    IF RGt(best.min_distance_sq, RMul(circle.radius, circle.radius)) THEN None
    ELSE Some([normal |-> best.normal,
               penetration |->
                   RSub(circle.radius,
                        length(VSub(best.min_point, circle.state.position))),
               collision_points |-> <<best.min_point>>])

polygon_circle_collision(polygon, circle) ==
    CircleAgainstLine(circle,
        ClosestOfLines(polygon, global_lines(polygon), circle.state.position,
                       [min_distance_sq |-> F32_MAX, min_point |-> zero, normal |-> zero]))

\* `data.normal *= -1.0` on a Some.
NegateNormal(data) ==
    IF data.some THEN Some([data.val EXCEPT !.normal = VMul(@, I(-1))]) ELSE data

\* Mutant: the circle-polygon order keeps the normal of the polygon-circle order.
check_collision_NoFlip(first, second) ==
    CASE first.kind = "Polygon" /\ second.kind = "Polygon" ->
             polygon_polygon_collision(first, second)
      [] first.kind = "Circle" /\ second.kind = "Circle" ->
             circle_circle_collision(first, second)
      [] first.kind = "Polygon" /\ second.kind = "Circle" ->
             polygon_circle_collision(first, second)
      [] first.kind = "Circle" /\ second.kind = "Polygon" ->
             polygon_circle_collision(second, first)

\* RigidBody::check_collision
check_collision(first, second) ==
    CASE first.kind = "Polygon" /\ second.kind = "Polygon" ->
             polygon_polygon_collision(first, second)
      [] first.kind = "Circle" /\ second.kind = "Circle" ->
             circle_circle_collision(first, second)
      [] first.kind = "Polygon" /\ second.kind = "Circle" ->
             polygon_circle_collision(first, second)
      [] first.kind = "Circle" /\ second.kind = "Polygon" ->
             NegateNormal(polygon_circle_collision(second, first))

(***************************************************************************)
(* RbSimulator                                                             *)
(***************************************************************************)
CORRECTION_FACTOR == <<1, 5>>

SLOP == I(1)

RbSimulator_new(gravity) ==
    [gravity |-> gravity, elasticity_selection |-> "Average",
     friction_selection |-> "Average", current_time_step |-> I(0), iterations |-> 5]

inverse_value(value) ==
    IF value = Inf \/ value = F32_MIN THEN I(0) ELSE RDiv(I(1), value)

scalar_vector_cross(scalar, vector) ==
    [x |-> RMul(RNeg(scalar), vector.y), y |-> RMul(scalar, vector.x)]

\* Mutant: gravity is applied to every body, whatever its behaviour.
apply_gravity_EveryBody(self, bodies, time_step) ==
    [i \in 1..Len(bodies) |->
        [bodies[i] EXCEPT !.state =
            apply_accumulated_forces(
                add_force(bodies[i].state, VMul(self.gravity, bodies[i].state.mass)),
                time_step)]]

apply_gravity(self, bodies, time_step) ==
    [i \in 1..Len(bodies) |->
        IF bodies[i].state.behaviour = "Dynamic"
        THEN [bodies[i] EXCEPT !.state =
                 apply_accumulated_forces(
                     add_force(bodies[i].state, VMul(self.gravity, bodies[i].state.mass)),
                     time_step)]
        ELSE bodies[i]]

move_bodies_by_velocity(bodies, time_step) ==
    [i \in 1..Len(bodies) |->
        [bodies[i] EXCEPT !.state = move_by_velocity(bodies[i].state, time_step)]]

\* Mutant: the cached geometry is left as the step found it.
RbSimulator_update_inner_values_Skip(bodies) == bodies

RbSimulator_update_inner_values(bodies) ==
    [i \in 1..Len(bodies) |-> update_inner_values(bodies[i])]

\* Mutant: the inner loop runs over 0..=i, so that every body is paired with itself too.
RECURSIVE IndexPairs_WithSelf(_, _, _)
IndexPairs_WithSelf(n, i, j) ==
    IF i >= n THEN <<>>
    ELSE IF j > i THEN IndexPairs_WithSelf(n, i + 1, 0)
    ELSE <<(<<i, j>>)>> \o IndexPairs_WithSelf(n, i, j + 1)

\* The pairs (i, j), j < i, in the order check_collisions builds them; 0-based.
RECURSIVE IndexPairs(_, _, _)
IndexPairs(n, i, j) ==
    IF i >= n THEN <<>>
    ELSE IF j >= i THEN IndexPairs(n, i + 1, 0)
    ELSE <<(<<i, j>>)>> \o IndexPairs(n, i, j + 1)

\* `if let Some(collision_data) = ... { collisions.push_back(...) }`
PushCollision(pair, data, rest) ==
    IF data.some
    THEN <<[index_a |-> pair[1], index_b |-> pair[2], collision_data |-> data.val]>> \o rest
    ELSE rest

RECURSIVE FilterCollisions(_, _)
FilterCollisions(bodies, pairs) ==
    IF pairs = <<>> THEN <<>>
    ELSE IF /\ bodies[Head(pairs)[1] + 1].state.behaviour = "Static"
            /\ bodies[Head(pairs)[2] + 1].state.behaviour = "Static"
    THEN FilterCollisions(bodies, Tail(pairs))
    ELSE PushCollision(Head(pairs),
                       check_collision(bodies[Head(pairs)[1] + 1], bodies[Head(pairs)[2] + 1]),
                       FilterCollisions(bodies, Tail(pairs)))

\* Mutant: pairs of two Static bodies are checked like every other pair.
RECURSIVE FilterCollisions_EveryPair(_, _)
FilterCollisions_EveryPair(bodies, pairs) ==
    IF pairs = <<>> THEN <<>>
    ELSE PushCollision(Head(pairs),
                       check_collision(bodies[Head(pairs)[1] + 1], bodies[Head(pairs)[2] + 1]),
                       FilterCollisions_EveryPair(bodies, Tail(pairs)))

check_collisions_EveryPair(bodies) ==
    FilterCollisions_EveryPair(bodies, IndexPairs(Len(bodies), 1, 0))

check_collisions(bodies) == FilterCollisions(bodies, IndexPairs(Len(bodies), 1, 0))

\* The closure effective_mass_formula; `c` holds the values read from the two bodies
\* before the loop over the collision points.
effective_mass_formula(c, radius_a, radius_b, dir) ==
    RAdd(c.inv_masses,
         dot(VAdd(VMul(scalar_vector_cross(cross(radius_a, dir), radius_a), c.inv_inertia_a),
                  VMul(scalar_vector_cross(cross(radius_b, dir), radius_b), c.inv_inertia_b)),
             dir))

\* (a_mul, b_mul)
MulA(c) == IF c.a_is_dynamic THEN (IF c.b_is_dynamic THEN Half ELSE I(1)) ELSE I(0)

MulB(c) == IF c.b_is_dynamic THEN (IF c.a_is_dynamic THEN Half ELSE I(1)) ELSE I(0)

\* The four updates of one body's state: `sign` is 1 for body A and -1 for body B.
Push(state, c, radius, tangent, imp_n, imp_t, m, inv_inertia, sign) ==
    [state EXCEPT
        !.velocity =
            VSub(VAdd(state.velocity, VMul(c.normal, RMul(sign, RDiv(imp_n, m)))),
                 VMul(tangent, RMul(sign, RDiv(imp_t, m)))),
        !.angular_velocity =
            RSub(RAdd(state.angular_velocity,
                      RMul(sign, RMul(cross(radius, VMul(c.normal, imp_n)), inv_inertia))),
                 RMul(sign, RMul(cross(radius, VMul(tangent, imp_t)), inv_inertia)))]

PushA(bodies, c, radius_a, tangent, impulse_normal, impulse_tangent) ==
    IF c.a_is_dynamic
    THEN [bodies EXCEPT ![c.index_a + 1].state =
             Push(@, c, radius_a, tangent, RMul(impulse_normal, MulA(c)),
                  RMul(impulse_tangent, MulA(c)), c.mass_a, c.inv_inertia_a, I(1))]
    ELSE bodies

PushB(bodies, c, radius_b, tangent, impulse_normal, impulse_tangent) ==
    IF c.b_is_dynamic
    THEN [bodies EXCEPT ![c.index_b + 1].state =
             Push(@, c, radius_b, tangent, RMul(impulse_normal, MulB(c)),
                  RMul(impulse_tangent, MulB(c)), c.mass_b, c.inv_inertia_b, I(-1))]
    ELSE bodies

\* The body of the loop over the collision points of one collision, from its last
\* statements back to its first: the impulses added to both bodies, the friction limit,
\* the two impulses, the relative velocity, the two radii.
AddImpulses(bodies, c, radius_a, radius_b, tangent, impulse_normal, impulse_tangent) ==
    PushB(PushA(bodies, c, radius_a, tangent, impulse_normal, impulse_tangent),
          c, radius_b, tangent, impulse_normal, impulse_tangent)

LimitFriction(bodies, c, radius_a, radius_b, tangent, impulse_normal, impulse_tangent) ==
    AddImpulses(bodies, c, radius_a, radius_b, tangent, impulse_normal,
                IF RGt(RAbs(impulse_tangent), RMul(c.shared_static_friction, impulse_normal))
                THEN RMul(impulse_tangent, c.shared_dynamic_friction)
                ELSE impulse_tangent)

Impulses(bodies, c, radius_a, radius_b, relative_velocity, tangent) ==
    LimitFriction(bodies, c, radius_a, radius_b, tangent,
        RMul(RDiv(RMul(RNeg(RAdd(I(1), c.shared_elasticity)),
                       RAdd(dot(relative_velocity, c.normal), c.correction)),
                  effective_mass_formula(c, radius_a, radius_b, c.normal)),
             c.multiplier),
        RMul(RDiv(dot(relative_velocity, tangent),
                  effective_mass_formula(c, radius_a, radius_b, tangent)),
             c.multiplier))

MovingApart(bodies, c, radius_a, radius_b, relative_velocity) ==
    IF RLt(dot(relative_velocity, c.normal), I(0)) THEN bodies
    ELSE Impulses(bodies, c, radius_a, radius_b, relative_velocity, normal(c.normal))

RelativeVelocity(bodies, c, radius_a, radius_b) ==
    MovingApart(bodies, c, radius_a, radius_b,
        VSub(VAdd(c.velocity_a, scalar_vector_cross(c.angular_velocity_a, radius_a)),
             VAdd(c.velocity_b, scalar_vector_cross(c.angular_velocity_b, radius_b))))

ResolvePoint(bodies, c, coll_point) ==
    RelativeVelocity(bodies, c, VSub(coll_point, c.center_a), VSub(coll_point, c.center_b))

RECURSIVE ResolvePoints(_, _, _)
ResolvePoints(bodies, c, points) ==
    IF points = <<>> THEN bodies
    ELSE ResolvePoints(ResolvePoint(bodies, c, Head(points)), c, Tail(points))

\* The values read from the bodies a and b of a collision before the loop over its points.
CollisionValues(self, a, b, coll) ==
    [index_a |-> coll.index_a, index_b |-> coll.index_b,
     a_is_dynamic |-> a.state.behaviour = "Dynamic",
     b_is_dynamic |-> b.state.behaviour = "Dynamic",
     normal |-> coll.collision_data.normal,
     mass_a |-> BodyState_mass(a.state), velocity_a |-> a.state.velocity,
     angular_velocity_a |-> a.state.angular_velocity,
     inv_inertia_a |-> inverse_value(BodyState_moment_of_inertia(a.state)),
     center_a |-> center_of_mass(a),
     mass_b |-> BodyState_mass(b.state), velocity_b |-> b.state.velocity,
     angular_velocity_b |-> b.state.angular_velocity,
     inv_inertia_b |-> inverse_value(BodyState_moment_of_inertia(b.state)),
     center_b |-> center_of_mass(b),
     shared_elasticity |->
         select(self.elasticity_selection, a.state.elasticity, b.state.elasticity),
     shared_dynamic_friction |->
         select(self.friction_selection, a.state.dynamic_friction, b.state.dynamic_friction),
     shared_static_friction |-> I(0),
     inv_masses |-> RAdd(inverse_value(BodyState_mass(a.state)),
                         inverse_value(BodyState_mass(b.state))),
     multiplier |-> RDiv(I(1), I(Len(coll.collision_data.collision_points))),
     correction |->
         RDiv(RMul(CORRECTION_FACTOR, RMax(RSub(coll.collision_data.penetration, SLOP), I(0))),
              self.current_time_step)]

\* The body of the loop over the collisions.
ResolveCollision(self, bodies, coll) ==
    IF /\ bodies[coll.index_a + 1].state.behaviour # "Dynamic"
       /\ bodies[coll.index_b + 1].state.behaviour # "Dynamic"
    THEN bodies
    ELSE ResolvePoints(bodies,
                       CollisionValues(self, bodies[coll.index_a + 1],
                                       bodies[coll.index_b + 1], coll),
                       coll.collision_data.collision_points)

RECURSIVE resolve_collisions(_, _, _)
resolve_collisions(self, bodies, collisions) ==
    IF collisions = <<>> THEN bodies
    ELSE resolve_collisions(self, ResolveCollision(self, bodies, Head(collisions)),
                            Tail(collisions))

Min(a, b) == IF a < b THEN a ELSE b

(***************************************************************************)
(* Points against bodies: Triangle, contains_point, point_collision_data   *)
(***************************************************************************)
triangulate_convex_polygon(points) ==
    IF Len(points) < 3 THEN <<>>
    ELSE [i \in 1..(Len(points) - 2) |->
             [a |-> points[1], b |-> points[i + 1], c |-> points[i + 2]]]

\* Triangle::contains_point, by barycentric coordinates, from its last statement back:
\* the test of (v, w, u), the two quotients, the denominator, the five dot products.
BarycentricInside(v, w) ==
    RGe(v, I(0)) /\ RGe(w, I(0)) /\ RGe(RSub(RSub(I(1), v), w), I(0))

BarycentricOver(d00, d01, d11, d20, d21, denom) ==
    BarycentricInside(RDiv(RSub(RMul(d11, d20), RMul(d01, d21)), denom),
                      RDiv(RSub(RMul(d00, d21), RMul(d01, d20)), denom))

BarycentricDots(d00, d01, d11, d20, d21) ==
    BarycentricOver(d00, d01, d11, d20, d21, RSub(RMul(d00, d11), RMul(d01, d01)))

BarycentricOf(v0, v1, v2) ==
    BarycentricDots(dot(v0, v0), dot(v0, v1), dot(v1, v1), dot(v2, v0), dot(v2, v1))

Triangle_contains_point(t, point) ==
    BarycentricOf(VSub(t.b, t.a), VSub(t.c, t.a), VSub(point, t.a))

AnyTriangle(triangulation, point) ==
    \E i \in 1..Len(triangulation) : Triangle_contains_point(triangulation[i], point)

\* global_triangulation is refreshed together with global_points.
Polygon_contains_point(self, point) ==
    AnyTriangle(triangulate_convex_polygon(self.global_points), point)

Circle_contains_point(self, point) ==
    RLe(length_squared(VSub(point, self.state.position)), RMul(self.radius, self.radius))

contains_point(body, point) ==
    IF body.kind = "Polygon" THEN Polygon_contains_point(body, point)
    ELSE Circle_contains_point(body, point)

\* The loop of Polygon::point_collision_data over the lines after the first.
RECURSIVE ClosestLine(_, _, _)
CloserSurface(lines, point, acc, cur_surface_point, cur_dist_sq) ==
    IF RLt(cur_dist_sq, acc.dist_sq)
    THEN ClosestLine(Tail(lines), point,
                     [closest_line |-> Head(lines), surface_point |-> cur_surface_point,
                      dist_sq |-> cur_dist_sq])
    ELSE ClosestLine(Tail(lines), point, acc)

SurfaceOfLine(lines, point, acc, cur_surface_point) ==
    CloserSurface(lines, point, acc, cur_surface_point,
                  length_squared(VSub(cur_surface_point, point)))

ClosestLine(lines, point, acc) ==
    IF lines = <<>> THEN acc
    ELSE SurfaceOfLine(lines, point, acc, closest_point(Head(lines), point))

SurfaceData(self, best) ==
    [surface_point |-> best.surface_point,
     surface_normal |-> lines_normal_pointing_outside(self, best.closest_line)]

FirstSurface(self, lines, point, first) ==
    SurfaceData(self,
        ClosestLine(Tail(lines), point,
                    [closest_line |-> lines[1], surface_point |-> first,
                     dist_sq |-> length_squared(VSub(first, point))]))

SurfaceOfLines(self, lines, point) ==
    FirstSurface(self, lines, point, closest_point(lines[1], point))

Polygon_point_collision_data(self, point) ==
    SurfaceOfLines(self, global_lines(self), point)

CircleSurface(self, nrm) ==
    [surface_point |-> VAdd(self.state.position, VMul(nrm, self.radius)),
     surface_normal |-> nrm]

Circle_point_collision_data(self, point) ==
    CircleSurface(self, normalized(VSub(point, self.state.position)))

point_collision_data(body, point) ==
    IF body.kind = "Polygon" THEN Polygon_point_collision_data(body, point)
    ELSE Circle_point_collision_data(body, point)

BodyForceAccumulation_empty == [force |-> zero, torque |-> I(0)]

add_force_at_radius(acc, force, radius) ==
    [force |-> VAdd(acc.force, force), torque |-> RAdd(acc.torque, cross(radius, force))]

(***************************************************************************)
(* Particle                                                                *)
(***************************************************************************)
MAX_SPEED == I(1000)

MAX_SPEED_SQUARED == RMul(MAX_SPEED, MAX_SPEED)

\* The least squared force that apply_accumulated_force applies.
ForceThreshold == <<1, 1000>>

Particle_new_with_velocity(position, velocity) ==
    [position |-> position, predicted_position |-> position, velocity |-> velocity,
     sph_density |-> I(0), sph_near_density |-> I(0), mass |-> I(1),
     target_density |-> I(1), pressure_multiplier |-> I(1),
     body_collision_force_multiplier |-> I(1), accumulated_force |-> zero,
     color |-> Color_rgb(0, 0, 255), id |-> 0]

Particle_set_mass(p, new_mass) ==
    [p EXCEPT !.mass = new_mass, !.target_density = new_mass,
              !.pressure_multiplier = RDiv(I(1), new_mass),
              !.body_collision_force_multiplier = new_mass]

Particle_add_force(p, force) ==
    [p EXCEPT !.accumulated_force = VAdd(p.accumulated_force, force)]

\* A force below the threshold is neither applied nor reset.
Particle_apply_accumulated_force(p, delta_time) ==
    IF RLt(length_squared(p.accumulated_force), ForceThreshold) THEN p
    ELSE [p EXCEPT !.velocity = runge_kutta_v(p.velocity, delta_time,
                                              VDiv(p.accumulated_force, p.mass)),
                   !.accumulated_force = zero]

MoveAt(p, delta_time, capped) ==
    [p EXCEPT !.velocity = capped,
              !.position = runge_kutta_v(p.position, delta_time, capped)]

Particle_move_by_velocity(p, delta_time) ==
    MoveAt(p, delta_time,
           IF RGe(length_squared(p.velocity), MAX_SPEED_SQUARED)
           THEN VMul(normalized(p.velocity), MAX_SPEED)
           ELSE p.velocity)

predict_position(p, delta_time) ==
    [p EXCEPT !.predicted_position = runge_kutta_v(p.position, delta_time, p.velocity)]

pressure(p) == RMul(p.pressure_multiplier, RSub(p.sph_density, p.target_density))

near_pressure(p) == p.sph_near_density

(***************************************************************************)
(* Sph                                                                     *)
(***************************************************************************)
PRESSURE_BASE == I(100000)

BODY_COLLISION_FORCE_BASE == I(10000)

NEAR_MAX == I(10000)

\* powi(2)
Squared(a) == RMul(a, a)

kernel(dist, radius) ==
    IF RGt(dist, radius) THEN I(0)
    ELSE Squared(RMax(RSub(I(1), RDiv(dist, radius)), I(0)))

NearKernelOver(dist, radius_inv) ==
    RMax(RSub(RDiv(radius_inv, dist), radius_inv), NEAR_MAX)

near_kernel(dist, radius) ==
    IF RGt(dist, radius) THEN I(0)
    ELSE IF REq(dist, I(0)) THEN NEAR_MAX
    ELSE NearKernelOver(dist, RDiv(I(1), radius))

kernel_derivative(dist, radius) ==
    IF RGt(dist, radius) THEN I(0)
    ELSE RDiv(RMul(I(2), RSub(dist, radius)), RMul(radius, radius))

near_kernel_derivative(dist, radius) ==
    IF RGt(dist, radius) THEN I(0)
    ELSE IF REq(dist, I(0)) THEN RNeg(NEAR_MAX)
    ELSE RMax(RMul(RDiv(I(-1), radius), RMul(dist, dist)), RNeg(NEAR_MAX))

SphOf(width, height, smoothing_radius) ==
    [particles |-> <<>>,
     lookup |-> LookUp_new(width, height, RMul(smoothing_radius, I(2))),
     gravity |-> VI(0, 981), smoothing_radius |-> smoothing_radius,
     pressure_base |-> PRESSURE_BASE, body_collision_base |-> BODY_COLLISION_FORCE_BASE,
     id_counter |-> 0]

Sph_new(width, height) == SphOf(width, height, I(12))

\* add_particle once the jittered position is known: the particle is stored under the
\* next id and its index is inserted into the lookup.
PushParticle(self, particle, pos) ==
    [self EXCEPT !.particles = Append(self.particles,
                                      [particle EXCEPT !.position = pos,
                                                       !.id = self.id_counter]),
                 !.id_counter = self.id_counter + 1,
                 !.lookup = insert(self.lookup, pos, Len(self.particles))]

\* Mutant: the stored particle keeps the id it came with.
add_particle_KeepId(self, particle, jitter) ==
    [PushParticle(self, particle, VAdd(particle.position, jitter)) EXCEPT
        !.particles[Len(self.particles) + 1].id = particle.id]

\* `jitter` is the drawn offset (fastrand::f32() - 0.5 on each axis).
add_particle(self, particle, jitter) ==
    PushParticle(self, particle, VAdd(particle.position, jitter))

add_gravity_force(self) ==
    [self EXCEPT !.particles =
        [i \in 1..Len(self.particles) |->
            Particle_add_force(self.particles[i],
                               VMul(self.gravity, self.particles[i].mass))]]

ZeroPair == <<I(0), I(0)>>

\* The map closure of calculate_densities on one neighbour.
DensityAt(self, other_inter, dist) ==
    <<RMul(other_inter.mass, kernel(dist, self.smoothing_radius)),
      RMul(other_inter.mass, near_kernel(dist, self.smoothing_radius))>>

DensityOf(self, p, other_inter) ==
    IF p.id = other_inter.id THEN ZeroPair
    ELSE DensityAt(self, other_inter,
                   length(VSub(p.predicted_position, other_inter.predicted_position)))

AddPair(acc, e) == <<RAdd(acc[1], e[1]), RAdd(acc[2], e[2])>>

\* The (density, near density) fold over the neighbours of one particle.
RECURSIVE DensityFold(_, _, _, _)
DensityFold(self, p, neighbors, acc) ==
    IF neighbors = <<>> THEN acc
    ELSE DensityFold(self, p, Tail(neighbors),
                     AddPair(acc, DensityOf(self, p, self.particles[Head(neighbors) + 1])))

WithDensities(p, sums) == [p EXCEPT !.sph_density = sums[1], !.sph_near_density = sums[2]]

DensitiesOf(self, p) ==
    WithDensities(p,
        DensityFold(self, p,
                    LLItems(get_immediate_neighbors(self.lookup, p.predicted_position)),
                    ZeroPair))

calculate_densities(self) ==
    [self EXCEPT !.particles =
        [i \in 1..Len(self.particles) |-> DensitiesOf(self, self.particles[i])]]

\* The map closure of apply_pressures on one neighbour; `unit` is the direction
\* random_unit() draws for a neighbour at the same predicted position.
PressureBetween(self, p, other_inter, dir, dist) ==
    VMul(VMul(dir, other_inter.mass),
         RAdd(RMul(RDiv(RAdd(RMul(pressure(p), self.pressure_base),
                             RMul(pressure(other_inter), self.pressure_base)),
                        RMul(I(2), other_inter.sph_density)),
                   kernel_derivative(dist, self.smoothing_radius)),
              RMul(RDiv(RAdd(near_pressure(p), near_pressure(other_inter)),
                        RMul(I(2), other_inter.sph_near_density)),
                   near_kernel_derivative(dist, self.smoothing_radius))))

PressureAlong(self, p, other_inter, unit, pos_diff) ==
    PressureBetween(self, p, other_inter,
                    IF is_zero(pos_diff) THEN unit ELSE normalized(pos_diff),
                    length(pos_diff))

PressureFrom(self, p, other_inter, unit) ==
    IF REq(other_inter.sph_density, I(0)) \/ p.id = other_inter.id THEN zero
    ELSE PressureAlong(self, p, other_inter, unit,
                       VSub(other_inter.predicted_position, p.predicted_position))

\* The pressure-force sum over the neighbours of one particle.
RECURSIVE PressureFold(_, _, _, _, _)
PressureFold(self, p, neighbors, unit, acc) ==
    IF neighbors = <<>> THEN acc
    ELSE PressureFold(self, p, Tail(neighbors), unit,
             VAdd(acc, PressureFrom(self, p, self.particles[Head(neighbors) + 1], unit)))

PressureOn(self, p, unit) ==
    Particle_add_force(p,
        PressureFold(self, p,
                     LLItems(get_immediate_neighbors(self.lookup, p.predicted_position)),
                     unit, zero))

apply_pressures(self, unit) ==
    [self EXCEPT !.particles =
        [i \in 1..Len(self.particles) |-> PressureOn(self, self.particles[i], unit)]]

\* `let elasticity = 0.3` of Sph::resolve_collisions.
FluidElasticity == <<3, 10>>

\* Mutant: the force is accumulated for Static bodies too.
BodyForce_EveryBody(self, body, p, collision_info, impulse) ==
    Some(add_force_at_radius(BodyForceAccumulation_empty,
             VMul(collision_info.surface_normal,
                  RMul(RMul(RNeg(impulse), p.body_collision_force_multiplier),
                       self.body_collision_base)),
             VSub(collision_info.surface_point, body.state.position)))

\* The filter_map closure of Sph::resolve_collisions on one particle and one body: the
\* particle as it is left and the force accumulation it yields, if any. From its last
\* statements back: the force on the body, the particle pushed to the surface, the
\* impulse, the collision data of the point half a step back.
BodyForce(self, body, p, collision_info, impulse) ==
    IF body.state.behaviour # "Static"
    THEN Some(add_force_at_radius(BodyForceAccumulation_empty,
                  VMul(collision_info.surface_normal,
                       RMul(RMul(RNeg(impulse), p.body_collision_force_multiplier),
                            self.body_collision_base)),
                  VSub(collision_info.surface_point, body.state.position)))
    ELSE None

Bounce(self, body, p, collision_info, impulse) ==
    [particle |-> [p EXCEPT !.velocity = VAdd(p.velocity,
                                              VMul(collision_info.surface_normal,
                                                   RDiv(impulse, p.mass))),
                            !.position = collision_info.surface_point],
     accumulation |-> BodyForce(self, body, p, collision_info, impulse)]

ImpulseOn(self, body, p, collision_info) ==
    Bounce(self, body, p, collision_info,
           RDiv(RMul(RNeg(RAdd(I(1), FluidElasticity)),
                     dot(p.velocity, collision_info.surface_normal)),
                RAdd(RDiv(I(1), p.mass), RDiv(I(1), BodyState_mass(body.state)))))

ParticleAgainstBody(self, body, p, delta_time) ==
    IF contains_point(body, p.position)
    THEN ImpulseOn(self, body, p,
                   point_collision_data(body,
                       VSub(p.position, VMul(VMul(p.velocity, delta_time), Half))))
    ELSE [particle |-> p, accumulation |-> None]

AddAccumulation(acc, o) ==
    IF o.some
    THEN [force |-> VAdd(acc.force, o.val.force), torque |-> RAdd(acc.torque, o.val.torque)]
    ELSE acc

\* reduce: the sum of the accumulations the particles yielded.
RECURSIVE ReduceAccumulations(_, _)
ReduceAccumulations(outcomes, acc) ==
    IF outcomes = <<>> THEN acc
    ELSE ReduceAccumulations(Tail(outcomes), AddAccumulation(acc, Head(outcomes).accumulation))

\* The loop over the bodies from `index` on: the particles and the (index, accumulation)
\* entries pushed so far. PushBodyForce is its body once every particle has been taken
\* against the body.
RECURSIVE ResolveAgainstBodies(_, _, _, _, _)
PushBodyForce(self, bodies, delta_time, index, body_forces, outcomes) ==
    ResolveAgainstBodies(
        [self EXCEPT !.particles = [i \in 1..Len(outcomes) |-> outcomes[i].particle]],
        bodies, delta_time, index + 1,
        Append(body_forces,
               [index |-> index,
                force_accumulation |->
                    ReduceAccumulations(outcomes, BodyForceAccumulation_empty)]))

ResolveAgainstBodies(self, bodies, delta_time, index, body_forces) ==
    IF index >= Len(bodies) THEN [sph |-> self, body_forces |-> body_forces]
    ELSE PushBodyForce(self, bodies, delta_time, index, body_forces,
             [i \in 1..Len(self.particles) |->
                 ParticleAgainstBody(self, bodies[index + 1], self.particles[i], delta_time)])

Sph_resolve_collisions(self, bodies, delta_time) ==
    ResolveAgainstBodies(self, bodies, delta_time, 0, <<>>)

RECURSIVE InsertPredicted(_, _, _)
InsertPredicted(lk, particles, index) ==
    IF index >= Len(particles) THEN lk
    ELSE InsertPredicted(insert(lk, particles[index + 1].predicted_position, index),
                         particles, index + 1)

setup_lookup(self) ==
    [self EXCEPT !.lookup = InsertPredicted(LookUp_clear(self.lookup), self.particles, 0)]

\* The statements of Sph::step between setup_lookup and resolve_collisions.
ConfigureFrom(self, config) ==
    [self EXCEPT !.gravity = config.sph_config.gravity,
                 !.pressure_base = config.sph_config.base_pressure,
                 !.body_collision_base = config.sph_config.base_body_force]

PredictPositions(self, dt) ==
    [self EXCEPT !.particles =
        [i \in 1..Len(self.particles) |-> predict_position(self.particles[i], dt)]]

MoveParticles(self, dt) ==
    [self EXCEPT !.particles =
        [i \in 1..Len(self.particles) |->
            Particle_move_by_velocity(
                Particle_apply_accumulated_force(self.particles[i], dt), dt)]]

\* The fluid system of Sph::step as resolve_collisions receives it.
MovedSystem(self, config, dt, unit) ==
    MoveParticles(
        apply_pressures(
            calculate_densities(
                add_gravity_force(
                    PredictPositions(ConfigureFrom(setup_lookup(self), config), dt))),
            unit),
        dt)

\* Sph::step: the fluid system as it is left and the returned body forces.
Sph_step(self, bodies, config, dt, unit) ==
    Sph_resolve_collisions(
        MoveParticles(
            apply_pressures(
                calculate_densities(
                    add_gravity_force(
                        PredictPositions(ConfigureFrom(setup_lookup(self), config), dt))),
                unit),
            dt),
        bodies, dt)

ParticlesAt(self, neighbors) ==
    [k \in 1..Len(neighbors) |-> self.particles[neighbors[k] + 1]]

get_particles_around_position(self, position, radius) ==
    ParticlesAt(self, LLItems(get_neighbors_in_radius(self.lookup, position, radius)))

(***************************************************************************)
(* GameConfig and Game                                                     *)
(***************************************************************************)
SphConfig_default ==
    [base_pressure |-> PRESSURE_BASE, base_body_force |-> BODY_COLLISION_FORCE_BASE,
     gravity |-> VI(0, 981)]

RigidBodiesConfig_default ==
    [elasticity_selection |-> "Average", friction_selection |-> "Average", iterations |-> 6]

GameConfig_default ==
    [time_step |-> <<1, 100>>, sub_steps |-> 2, gravity |-> VI(0, 981),
     sph_config |-> SphConfig_default, rb_config |-> RigidBodiesConfig_default]

InfoPanel_default ==
    [particle_count |-> 0, body_count |-> 0,
     under_mouse_entity |-> [kind |-> "Nothing", position |-> zero],
     is_simulating |-> TRUE]

\* The four walls of Game::new: bottom, top, left, right.
Walls(f_width, f_height, wall_thickness) ==
    <<Rectangle(V(RMul(f_width, Half), RSub(f_height, RMul(wall_thickness, Half))),
                f_width, wall_thickness, "Static"),
      Rectangle(V(RMul(f_width, Half), RMul(wall_thickness, Half)),
                f_width, wall_thickness, "Static"),
      Rectangle(V(RMul(wall_thickness, Half), RMul(f_height, Half)),
                wall_thickness, f_height, "Static"),
      Rectangle(V(RSub(f_width, RMul(wall_thickness, Half)), RMul(f_height, Half)),
                wall_thickness, f_height, "Static")>>

PassingShared(body) ==
    [body EXCEPT !.state.elasticity = Pass, !.state.static_friction = Pass,
                 !.state.dynamic_friction = Pass]

GameOf(f_width, f_height, walls) ==
    [game_config |-> GameConfig_default,
     fluid_system |-> Sph_new(f_width, f_height),
     is_simulating |-> TRUE,
     rb_simulator |-> RbSimulator_new(VI(0, 981)),
     bodies |-> [i \in 1..Len(walls) |-> PassingShared(walls[i])],
     info_panel |-> InfoPanel_default]

\* Game::new: the four walls with passing shared properties, an empty fluid system.
Game_new(width, height) ==
    GameOf(I(width), I(height), Walls(I(width), I(height), I(20)))

\* The first body that contains the mouse position.
RECURSIVE FirstBodyAt(_, _, _)
FirstBodyAt(bodies, index, mouse_pos) ==
    IF index >= Len(bodies) THEN None
    ELSE IF contains_point(bodies[index + 1], mouse_pos) THEN Some(index)
    ELSE FirstBodyAt(bodies, index + 1, mouse_pos)

\* min_by on the squared distance: the first of the closest particles.
RECURSIVE ClosestParticle(_, _, _)
CloserParticle(found, mouse_pos, best, d) ==
    IF ~best.some \/ RLt(d, best.val[1])
    THEN ClosestParticle(Tail(found), mouse_pos, Some(<<d, Head(found)>>))
    ELSE ClosestParticle(Tail(found), mouse_pos, best)

ClosestParticle(found, mouse_pos, best) ==
    IF found = <<>> THEN best
    ELSE CloserParticle(found, mouse_pos, best,
                        length_squared(VSub(Head(found).position, mouse_pos)))

BodyInfo(index, state) ==
    [kind |-> "Body", index |-> index, position |-> state.position,
     velocity |-> state.velocity, mass |-> BodyState_mass(state)]

FluidInfo(closest, mouse_pos) ==
    IF closest.some
    THEN [kind |-> "Fluid", position |-> closest.val[2].position,
          velocity |-> closest.val[2].velocity, density |-> closest.val[2].mass]
    ELSE [kind |-> "Nothing", position |-> mouse_pos]

EntityAt(bodies, fluid, mouse_pos, hit) ==
    IF hit.some THEN BodyInfo(hit.val, bodies[hit.val + 1].state)
    ELSE FluidInfo(ClosestParticle(get_particles_around_position(fluid, mouse_pos, I(10)),
                                   mouse_pos, None),
                   mouse_pos)

\* The entity physics_update reports under the mouse.
under_mouse_entity(bodies, fluid, mouse_pos) ==
    EntityAt(bodies, fluid, mouse_pos, FirstBodyAt(bodies, 0, mouse_pos))

\* Mutant: the rigid-body step is entered right after the fluid step.
physics_update_pc_StepBeforeForces(pending) == "rb_call"

\* Where a sub-step of physics_update goes on after the fluid step and after each turn of
\* the loop over the returned forces: to the next returned force, or to rb_simulator.step.
physics_update_pc(pending) == IF pending # <<>> THEN "forces" ELSE "rb_call"

(***************************************************************************)
(* Idle values of the variables a specification does not use.              *)
(***************************************************************************)
NoLkOp == [kind |-> "none"]

NoRun == [pc |-> "none"]

\* Every variable outside the named groups rests at its idle value.
IdleExcept(groups) ==
    /\ IF "lookup" \in groups THEN TRUE ELSE lookup = <<>> /\ lkop = NoLkOp
    /\ IF "select" \in groups THEN TRUE ELSE sel = <<>>
    /\ IF "circle" \in groups THEN TRUE ELSE circ = <<>>
    /\ IF "polygon" \in groups THEN TRUE ELSE poly = <<>>
    /\ IF "rb" \in groups THEN TRUE
       ELSE /\ rb_bodies = <<>>
            /\ rb_collisions = <<>>
            /\ rb_simulator = <<>>
            /\ game_config = <<>>
            /\ rbrun = NoRun
    /\ IF "game" \in groups THEN TRUE ELSE fluid_system = <<>> /\ game = <<>>
    /\ IF "serial" \in groups THEN TRUE ELSE ser = <<>>

lookupVars == <<lookup, lkop>>

rbVars == <<rb_bodies, rb_collisions, rb_simulator, game_config, rbrun>>

gameVars == <<fluid_system, game>>

serialVars == <<ser>>

notLookup == <<sel, circ, poly, rbVars, gameVars, serialVars>>

notSelect == <<lookupVars, circ, poly, rbVars, gameVars, serialVars>>

notCircle == <<lookupVars, sel, poly, rbVars, gameVars, serialVars>>

notPolygon == <<lookupVars, sel, circ, rbVars, gameVars, serialVars>>

notRb == <<lookupVars, sel, circ, poly, gameVars, serialVars>>

notGame == <<lookupVars, sel, circ, poly, serialVars>>

notSerial == <<lookupVars, sel, circ, poly, rbVars, gameVars>>

(***************************************************************************)
(* Specification of the lookup: inserts, clears and queries on one grid.   *)
(***************************************************************************)
\* Representative coordinates: left of the grid, the first cell, the second cell, the far
\* edge of a grid that is a whole number of cells wide (x), and beyond the height but still
\* inside the last, cut cell (y).
XCoords == {-1, 0, CellSize - 1, CellSize + 1, 2 * CellSize, 2 * CellSize + 1}

YCoords == {-1, 0, CellSize - 1, CellSize + 1, CellSize + 2}

Positions == {VI(x, y) : x \in XCoords, y \in YCoords}

Handles == 0..1

Radii == {I(1), I(2 * CellSize)}

\* width is a whole number of cells, the last row of cells is cut by height.
LookupInit ==
    /\ lookup = LookUp_new(I(2 * CellSize), I(CellSize + 1), I(CellSize))
    /\ lkop = NoLkOp
    /\ IdleExcept({"lookup"})

LookupInsert ==
    \E p \in Positions, h \in Handles :
        /\ ItemCount(lookup) < MaxItems
        /\ lookup' = insert(lookup, p, h)
        /\ lkop' = [kind |-> "insert", pos |-> p, item |-> h, before |-> lookup.cells,
                    target |-> IF OutOfBounds(lookup, p) THEN None ELSE InsertTarget(lookup, p)]
        /\ UNCHANGED notLookup

LookupClear ==
    /\ ItemCount(lookup) > 0
    /\ lookup' = LookUp_clear(lookup)
    /\ lkop' = [kind |-> "clear"]
    /\ UNCHANGED notLookup

LookupImmediate ==
    \E p \in Positions :
        /\ lookup' = lookup
        /\ lkop' = [kind |-> "query", pos |-> p, radius |-> lookup.cell_size,
                    found |-> NeighborCells(lookup, p, lookup.cell_size),
                    result |-> LLItems(get_immediate_neighbors(lookup, p))]
        /\ UNCHANGED notLookup

LookupRadius ==
    \E p \in Positions, r \in Radii :
        /\ lookup' = lookup
        /\ lkop' = [kind |-> "query", pos |-> p, radius |-> r,
                    found |-> NeighborCells(lookup, p, r),
                    result |-> LLItems(get_neighbors_in_radius(lookup, p, r))]
        /\ UNCHANGED notLookup

LookupNext == LookupInsert \/ LookupClear \/ LookupImmediate \/ LookupRadius

SpecLookup == LookupInit /\ [][LookupNext]_vars

(***************************************************************************)
(* Claims about the lookup.                                                *)
(***************************************************************************)
InBoundsPositions == {p \in Positions : ~OutOfBounds(lookup, p)}

ImmediateItems(p) == SeqToSet(LLItems(get_immediate_neighbors(lookup, p)))

\* How often handle h is stored in the grid.
Occurrences(h) ==
    LET all == LLItems([k \in 1..(Len(lookup.cells) * Len(lookup.cells[1])) |->
                          lookup.cells[((k - 1) \div Len(lookup.cells[1])) + 1]
                                      [((k - 1) % Len(lookup.cells[1])) + 1]])
    IN Cardinality({i \in 1..Len(all) : all[i] = h})

RDist(a, b) == RAbs(RSub(a, b))

\* The last operation inserted a handle at an in-bounds position and no other insert of that
\* handle is stored.
InsertedOnce ==
    /\ lkop.kind = "insert"
    /\ ~OutOfBounds(lookup, lkop.pos)
    /\ Occurrences(lkop.item) = (IF lkop.target.some THEN 1 ELSE 0)

\* C1: after insert(p, h) at a position insert accepts (0 <= p.x <= width, 0 <= p.y <= height,
\* the edges included), get_immediate_neighbors(p) contains h.
C1_InsertedIsOwnNeighbor ==
    (lkop.kind = "insert" /\ ~OutOfBounds(lookup, lkop.pos))
        => lkop.item \in ImmediateItems(lkop.pos)

\* C2 as stated: a handle stored once, inserted at in-bounds p, is absent from
\* get_immediate_neighbors(q) for every in-bounds q more than cell_size from p in both axes.
C2_FartherThanCellSizeExcluded ==
    InsertedOnce
        => \A q \in InBoundsPositions :
              (RGt(RDist(q.x, lkop.pos.x), lookup.cell_size)
               /\ RGt(RDist(q.y, lkop.pos.y), lookup.cell_size))
                  => lkop.item \notin ImmediateItems(q)

\* C2 amended: the handle is absent from get_immediate_neighbors(q) for every in-bounds q that
\* is at least 2 * cell_size from p in one axis (so also when it is in both).
C2_TwoCellSizesExcluded ==
    InsertedOnce
        => \A q \in InBoundsPositions :
              (RGe(RDist(q.x, lkop.pos.x), RMul(I(2), lookup.cell_size))
               \/ RGe(RDist(q.y, lkop.pos.y), RMul(I(2), lookup.cell_size)))
                  => lkop.item \notin ImmediateItems(q)

\* The handle was stored in the first cell and a position two cell sizes away is queried.
C2_Witness ==
    /\ lkop.kind = "insert"
    /\ lkop.target = Some(<<0, 0>>)
    /\ Occurrences(lkop.item) = 1
    /\ \E q \in InBoundsPositions :
          /\ RGe(RDist(q.x, lkop.pos.x), RMul(I(2), lookup.cell_size))
          /\ ImmediateItems(q) # {}
          /\ lkop.item \notin ImmediateItems(q)

IndexInGrid(rc) ==
    /\ rc[1] >= 0 /\ rc[1] < Len(lookup.cells)
    /\ rc[2] >= 0 /\ rc[2] < Len(lookup.cells[1])

\* The position lies outside the rectangle [0, width] x [0, height].
OutsideRectangle(p) ==
    \/ RLt(p.x, I(0)) \/ RGt(p.x, lookup.width)
    \/ RLt(p.y, I(0)) \/ RGt(p.y, lookup.height)

\* C3: an insert outside [0,width]x[0,height] leaves every cell unchanged, a query there
\* returns an empty sequence, and every cell index an insert or a query dereferences, at
\* any position, is an index of the grid (nothing indexes out of range).
C3_OutOfBoundsIsNoOp ==
    /\ (lkop.kind = "insert" /\ OutsideRectangle(lkop.pos)) => lookup.cells = lkop.before
    /\ (lkop.kind = "query" /\ OutsideRectangle(lkop.pos)) => lkop.result = <<>>
    /\ (lkop.kind = "insert" /\ lkop.target.some) => IndexInGrid(lkop.target.val)
    /\ lkop.kind = "query" => \A k \in 1..Len(lkop.found) : IndexInGrid(lkop.found[k])

\* An insert beyond the height, at a position the last (cut) cell would still cover, into a
\* grid that already holds an item.
C3_Witness ==
    /\ lkop.kind = "insert"
    /\ RGt(lkop.pos.y, lookup.height)
    /\ RLt(lkop.pos.y, RMul(I(Len(lookup.cells)), lookup.cell_size))
    /\ ~RLt(lkop.pos.x, I(0)) /\ ~RGt(lkop.pos.x, lookup.width)
    /\ ItemCount(lookup) > 0

\* ceil(radius / cell_size) for positive operands.
CeilDiv(radius, cell_size) ==
    LET q == RDiv(radius, cell_size)
    IN IF REq(I(RTrunc(q)), q) THEN RTrunc(q) ELSE RTrunc(q) + 1

\* The cells of the grid in the block of side 2k+1 centred on the cell of p.
Block(p, k) ==
    LET mid_col == RTrunc(RDiv(p.x, lookup.cell_size))
        mid_row == RTrunc(RDiv(p.y, lookup.cell_size))
    IN {rc \in (0..(Len(lookup.cells) - 1)) \X (0..(Len(lookup.cells[1]) - 1)) :
            Abs(rc[1] - mid_row) <= k /\ Abs(rc[2] - mid_col) <= k}

\* C4: for an in-bounds position and a radius > 0, get_neighbors_in_radius returns exactly
\* the cells of the block of side 2 * ceil(radius / cell_size) + 1 around the position's cell,
\* clipped at the border of the grid.
C4_RadiusCoversCeilBlock ==
    (lkop.kind = "query" /\ ~OutOfBounds(lookup, lkop.pos))
        => SeqToSet(lkop.found) = Block(lkop.pos, CeilDiv(lkop.radius, lookup.cell_size))

(***************************************************************************)
(* Specification of SharedPropertySelection::select: one call on drawn     *)
(* arguments.                                                              *)
(***************************************************************************)
MaxProperty == 4

\* Halves from -1 to MaxProperty.
PropertyValues == {Rat(n, 2) : n \in (-2)..(2 * MaxProperty)}

SharedProperties == {Pass} \cup {Value(v) : v \in PropertyValues}

SelectInit ==
    /\ sel \in [mode : SelectionModes, a : SharedProperties, b : SharedProperties,
                called : {FALSE}, result : {I(0)}]
    /\ IdleExcept({"select"})

Select ==
    /\ ~sel.called
    /\ sel' = [sel EXCEPT !.called = TRUE, !.result = select(sel.mode, sel.a, sel.b)]
    /\ UNCHANGED notSelect

SelectNext == Select

SpecSelect == SelectInit /\ [][SelectNext]_vars

\* a * b, (a + b) / 2, min and max of two finite rationals, by cross-multiplication.
ExpectedOfValues(mode, a, b) ==
    CASE mode = "Multiply" -> Rat(a[1] * b[1], a[2] * b[2])
      [] mode = "Average" -> Rat(a[1] * b[2] + b[1] * a[2], 2 * a[2] * b[2])
      [] mode = "Min" -> IF a[1] * b[2] <= b[1] * a[2] THEN a ELSE b
      [] mode = "Max" -> IF a[1] * b[2] >= b[1] * a[2] THEN a ELSE b

\* C5: select(Pass, Pass) is the default 0; with exactly one Value(v) the result is v in
\* every mode; with two values it is a*b, (a+b)/2, min(a,b) or max(a,b) by mode, so
\* Average of 2 and 4 is 3; and swapping the two arguments gives the same result.
C5_SelectContract ==
    sel # <<>> /\ sel.called =>
        /\ (sel.a.pass /\ sel.b.pass) => sel.result = I(0)
        /\ (~sel.a.pass /\ sel.b.pass) => sel.result = sel.a.val
        /\ (sel.a.pass /\ ~sel.b.pass) => sel.result = sel.b.val
        /\ (~sel.a.pass /\ ~sel.b.pass) =>
               sel.result = ExpectedOfValues(sel.mode, sel.a.val, sel.b.val)
        /\ (sel.mode = "Average" /\ sel.a = Value(I(2)) /\ sel.b = Value(I(4))) =>
               sel.result = I(3)
        /\ sel.result = select(sel.mode, sel.b, sel.a)

\* Average.select(Value(2), Value(4)) has been called.
C5_Witness ==
    /\ sel # <<>> /\ sel.called
    /\ sel.mode = "Average" /\ sel.a = Value(I(2)) /\ sel.b = Value(I(4))
    /\ sel.result = I(3)

(***************************************************************************)
(* Specification of circle_circle_collision: one check of a drawn pair of  *)
(* circles whose centre distance is a whole number.                        *)
(***************************************************************************)
MaxRadius == 4

MaxOffset == 8

\* Centre offsets of whole length: along an axis, or a multiple of (3, 4).
WholeOffsets ==
    {v \in {VI(x, y) : x \in (-MaxOffset)..MaxOffset, y \in (-MaxOffset)..MaxOffset} :
        \E k \in 0..(2 * MaxOffset) : I(k * k) = length_squared(v)}

CircleCentres == {VI(0, 0), VI(5, -3)}

CircleInit ==
    /\ \E c \in CircleCentres, o \in WholeOffsets, r1 \in 1..MaxRadius, r2 \in 1..MaxRadius :
           circ = [this |-> new_circle(c, I(r1), "Dynamic"),
                   other |-> new_circle(VAdd(c, o), I(r2), "Dynamic"),
                   called |-> FALSE, result |-> None]
    /\ IdleExcept({"circle"})

CircleCheck ==
    /\ ~circ.called
    /\ circ' = [circ EXCEPT !.called = TRUE,
                            !.result = circle_circle_collision(circ.this, circ.other)]
    /\ UNCHANGED notCircle

CircleNext == CircleCheck

SpecCircle == CircleInit /\ [][CircleNext]_vars

\* The whole number d with d * d = |other - this|^2.
CentreDistance ==
    LET dx == circ.other.state.position.x[1] - circ.this.state.position.x[1]
        dy == circ.other.state.position.y[1] - circ.this.state.position.y[1]
    IN CHOOSE d \in 0..(2 * MaxOffset) : d * d = dx * dx + dy * dy

RadiusSum == circ.this.radius[1] + circ.other.radius[1]

\* C8: two circles collide iff d <= r1 + r2, the penetration is r1 + r2 - d, and at
\* tangency (d = r1 + r2) a collision with penetration 0 is reported.
C8_CircleCollisionIffWithinRadii ==
    circ # <<>> /\ circ.called =>
        /\ circ.result.some <=> CentreDistance <= RadiusSum
        /\ circ.result.some => circ.result.val.penetration = I(RadiusSum - CentreDistance)
        /\ CentreDistance = RadiusSum =>
               circ.result.some /\ circ.result.val.penetration = I(0)

\* Two tangent circles, not axis-aligned, have been checked and collide with depth 0.
C8_Witness ==
    /\ circ # <<>> /\ circ.called
    /\ CentreDistance = RadiusSum
    /\ circ.this.state.position.x # circ.other.state.position.x
    /\ circ.this.state.position.y # circ.other.state.position.y
    /\ circ.result.some /\ circ.result.val.penetration = I(0)

(***************************************************************************)
(* Specification of polygon_polygon_collision: one check of a drawn pair   *)
(* of unrotated convex polygons.                                           *)
(***************************************************************************)
MaxShift == 6

\* Centre offsets per axis: every whole shift up to MaxShift, and far apart.
Shifts == ((-MaxShift)..MaxShift) \cup {100}

\* The 5x5 square of the tests, a wide and a tall rectangle, and a 3-4-5 triangle.
PolygonShapes == {"square", "wide", "tall", "triangle"}

ShapeAt(shape, pos) ==
    CASE shape = "square" -> Rectangle(pos, I(5), I(5), "Static")
      [] shape = "wide" -> Rectangle(pos, I(20), I(5), "Static")
      [] shape = "tall" -> Rectangle(pos, I(4), I(12), "Static")
      [] shape = "triangle" -> new_polygon(pos, <<VI(-1, -1), VI(2, -1), VI(-1, 3)>>, "Static")

PolygonInit ==
    /\ \E s1 \in PolygonShapes, s2 \in PolygonShapes, dx \in Shifts, dy \in Shifts :
           poly = [this |-> ShapeAt(s1, VI(0, 0)), other |-> ShapeAt(s2, VI(dx, dy)),
                   shapes |-> <<s1, s2>>, called |-> FALSE, result |-> None]
    /\ IdleExcept({"polygon"})

PolygonCheck ==
    /\ ~poly.called
    /\ poly' = [poly EXCEPT !.called = TRUE,
                            !.result = polygon_polygon_collision(poly.this, poly.other)]
    /\ UNCHANGED notPolygon

PolygonNext == PolygonCheck

SpecPolygon == PolygonInit /\ [][PolygonNext]_vars

\* C9: swapping the two polygons keeps "no collision", keeps the penetration and negates
\* the normal exactly, also when axes tie for the minimum overlap and when the centres
\* coincide.
C9_SwapNegatesNormal ==
    poly # <<>> /\ poly.called =>
        LET swapped == polygon_polygon_collision(poly.other, poly.this)
        IN /\ poly.result.some <=> swapped.some
           /\ poly.result.some =>
                  /\ poly.result.val.penetration = swapped.val.penetration
                  /\ poly.result.val.normal = VMul(swapped.val.normal, I(-1))

\* The part of C9 that holds: the outcome and the penetration do not depend on the order.
C9_SwapKeepsPenetration ==
    poly # <<>> /\ poly.called =>
        LET swapped == polygon_polygon_collision(poly.other, poly.this)
        IN /\ poly.result.some <=> swapped.some
           /\ poly.result.some => poly.result.val.penetration = swapped.val.penetration

IsRectangle(shape) == shape \in {"square", "wide", "tall"}

\* The extent of an unrotated rectangle on the x and on the y axis, from its centre and its
\* corner (-w/2, -h/2).
ExtentX(b) == [min |-> RAdd(b.state.position.x, b.points[1].x),
               max |-> RSub(b.state.position.x, b.points[1].x)]

ExtentY(b) == [min |-> RAdd(b.state.position.y, b.points[1].y),
               max |-> RSub(b.state.position.y, b.points[1].y)]

ExtentsOverlap(e, f) == RGt(e.max, f.min) /\ RGt(f.max, e.min)

\* How far one extent has to be moved along the axis to stop overlapping the other.
OverlapDepth(e, f) == RMin(RSub(e.max, f.min), RSub(f.max, e.min))

\* C10: two unrotated rectangles collide iff their x-extents overlap and their y-extents
\* overlap; the penetration is the smaller of the two per-axis overlap depths; 5x5 squares
\* with centres 4 apart on one axis give penetration 1, 100 apart give no collision.
C10_RectanglesOverlapOnBothAxes ==
    (poly # <<>> /\ poly.called /\ IsRectangle(poly.shapes[1]) /\ IsRectangle(poly.shapes[2])) =>
        LET ax == ExtentX(poly.this)
            ay == ExtentY(poly.this)
            bx == ExtentX(poly.other)
            by == ExtentY(poly.other)
            d == VSub(poly.other.state.position, poly.this.state.position)
            squares == poly.shapes = <<"square", "square">>
        IN /\ poly.result.some <=> (ExtentsOverlap(ax, bx) /\ ExtentsOverlap(ay, by))
           /\ poly.result.some =>
                  poly.result.val.penetration = RMin(OverlapDepth(ax, bx), OverlapDepth(ay, by))
           /\ (squares /\ d \in {VI(0, 4), VI(4, 0), VI(0, -4), VI(-4, 0)}) =>
                  poly.result.some /\ poly.result.val.penetration = I(1)
           /\ (squares /\ d = VI(100, 100)) => ~poly.result.some

\* The 5x5 squares with centres 4 apart on the y axis have been checked: penetration 1.
C10_Witness ==
    /\ poly # <<>> /\ poly.called
    /\ poly.shapes = <<"square", "square">>
    /\ poly.other.state.position = VI(0, 4)
    /\ poly.result.some /\ poly.result.val.penetration = I(1)

(***************************************************************************)
(* Specification of RbSimulator::step: one step over a drawn scene, phase  *)
(* by phase.                                                               *)
(***************************************************************************)
MaxIterations == 2

MaxSubSteps == 2

\* A body as the body maker leaves it: mass set, moving and spinning.
Moving(body, m, velocity, angular_velocity) ==
    [body EXCEPT !.state = [set_mass(@, m) EXCEPT !.velocity = velocity,
                                                   !.angular_velocity = angular_velocity]]

\* The floor is 20 wide and 5 high around the origin; its top is at y = -5/2 (y grows
\* downwards). The static ball of radius 3 sits at the origin.
Floor == Rectangle(VI(0, 0), I(20), I(5), "Static")

StaticBall == new_circle(VI(0, 0), I(3), "Static")

\* Dynamic bodies that touch or penetrate the floor or the static ball, at rest.
OnFloor ==
    {Rectangle(VI(0, -3), I(5), I(5), "Dynamic"),
     Rectangle(VI(9, -4), I(5), I(5), "Dynamic"),
     new_polygon(V(I(0), <<-9, 2>>), <<VI(-1, -1), VI(2, -1), VI(-1, 3)>>, "Dynamic"),
     new_circle(VI(0, -4), I(2), "Dynamic"),
     new_circle(V(I(3), <<-7, 2>>), I(2), "Dynamic")}

OnStaticBall ==
    {new_circle(VI(3, 4), I(2), "Dynamic"),
     new_circle(VI(0, 4), I(2), "Dynamic"),
     Rectangle(VI(0, -5), I(5), I(5), "Dynamic")}

RbVelocities == {VI(0, 0), VI(3, -1)}

RbAngularVelocities == {I(0), I(1)}

RbMasses == {I(1), I(2)}

\* A dynamic ball that rests on top of the box standing on the floor.
TopBall == Moving(new_circle(VI(0, -7), I(2), "Dynamic"), I(1), VI(0, 0), I(0))

\* A static and a dynamic body; RbScenes takes them in either order (the higher index is
\* the first body of the pair), and the box on the floor with the ball on top of it.
ScenesOf(static, dynamic) ==
    {<<st, dy>> : st \in {static, PassingShared(static)},
                  dy \in {Moving(dynamic, m, v, w) :
                              m \in RbMasses, v \in RbVelocities, w \in RbAngularVelocities}}

RbScenes ==
    LET two == UNION ({ScenesOf(Floor, d) : d \in OnFloor}
                      \cup {ScenesOf(StaticBall, d) : d \in OnStaticBall})
    IN two \cup {<<s[2], s[1]>> : s \in two}
           \cup {<<s[1], s[2], TopBall>> :
                     s \in ScenesOf(Floor, Rectangle(VI(0, -3), I(5), I(5), "Dynamic"))}

RbInit ==
    /\ rb_bodies \in RbScenes
    /\ rb_collisions = <<>>
    /\ rb_simulator = RbSimulator_new(VI(0, 981))
    /\ \E n \in 0..MaxIterations :
           game_config = [time_step |-> I(2), sub_steps |-> 1, gravity |-> VI(0, 10),
                          rb_config |-> [elasticity_selection |-> "Min",
                                         friction_selection |-> "Average",
                                         iterations |-> n]]
    /\ \E k \in 1..MaxSubSteps :
           rbrun = [pc |-> "start", dt |-> RDiv(I(2), I(k)), pass |-> 0, last |-> "none",
                    prev |-> <<>>]
    /\ IdleExcept({"rb"})

\* step: the values set from the call and from the config.
RbStepBegin ==
    /\ rbrun.pc = "start"
    /\ rb_simulator' =
           [rb_simulator EXCEPT
               !.current_time_step = rbrun.dt,
               !.gravity = game_config.gravity,
               !.elasticity_selection = game_config.rb_config.elasticity_selection,
               !.friction_selection = game_config.rb_config.friction_selection,
               !.iterations = Min(game_config.rb_config.iterations, 1)]
    /\ rbrun' = [rbrun EXCEPT !.pc = "gravity", !.last = "begin", !.prev = rb_bodies]
    /\ UNCHANGED <<rb_bodies, rb_collisions, game_config, notRb>>

RbApplyGravity ==
    /\ rbrun.pc = "gravity"
    /\ rb_bodies' = apply_gravity(rb_simulator, rb_bodies, game_config.time_step)
    /\ rbrun' = [rbrun EXCEPT !.pc = "detect", !.last = "gravity", !.prev = rb_bodies]
    /\ UNCHANGED <<rb_collisions, rb_simulator, game_config, notRb>>

RbCheckCollisions ==
    /\ rbrun.pc = "detect"
    /\ rb_collisions' = check_collisions(rb_bodies)
    /\ rbrun' = [rbrun EXCEPT !.pc = "resolve", !.pass = 0, !.last = "detect",
                              !.prev = rb_bodies]
    /\ UNCHANGED <<rb_bodies, rb_simulator, game_config, notRb>>

\* One turn of `for _ in 0..self.iterations`.
RbResolveCollisions ==
    /\ rbrun.pc = "resolve"
    /\ rbrun.pass < rb_simulator.iterations
    /\ rb_bodies' = resolve_collisions(rb_simulator, rb_bodies, rb_collisions)
    /\ rbrun' = [rbrun EXCEPT !.pass = @ + 1, !.last = "resolve", !.prev = rb_bodies]
    /\ UNCHANGED <<rb_collisions, rb_simulator, game_config, notRb>>

RbMoveBodies ==
    /\ rbrun.pc = "resolve"
    /\ rbrun.pass >= rb_simulator.iterations
    /\ rb_bodies' = move_bodies_by_velocity(rb_bodies, game_config.time_step)
    /\ rbrun' = [rbrun EXCEPT !.pc = "refresh", !.last = "move", !.prev = rb_bodies]
    /\ UNCHANGED <<rb_collisions, rb_simulator, game_config, notRb>>

RbUpdateInnerValues ==
    /\ rbrun.pc = "refresh"
    /\ rb_bodies' = RbSimulator_update_inner_values(rb_bodies)
    /\ rbrun' = [rbrun EXCEPT !.pc = "done", !.last = "refresh", !.prev = rb_bodies]
    /\ UNCHANGED <<rb_collisions, rb_simulator, game_config, notRb>>

RbNext ==
    \/ RbStepBegin
    \/ RbApplyGravity
    \/ RbCheckCollisions
    \/ RbResolveCollisions
    \/ RbMoveBodies
    \/ RbUpdateInnerValues

SpecRb == RbInit /\ [][RbNext]_vars

\* The numbers of passes tried over one detected collision set.
PassCounts == {1, 2, 3}

RECURSIVE ResolvePasses(_, _, _, _)
ResolvePasses(self, bodies, collisions, n) ==
    IF n = 0 THEN bodies
    ELSE ResolvePasses(self, resolve_collisions(self, bodies, collisions), collisions, n - 1)

\* velocity, angular velocity and position of every Static body are the same in both lists.
StaticsKept(before, after) ==
    \A i \in 1..Len(before) :
        before[i].state.behaviour = "Static" =>
            /\ after[i].state.velocity = before[i].state.velocity
            /\ after[i].state.angular_velocity = before[i].state.angular_velocity
            /\ after[i].state.position = before[i].state.position

\* C6: gravity application and the impulse-resolution pass of a step leave the velocity,
\* the angular velocity and the position of every Static body as they were, and so does any
\* number of further passes over the collisions detected between a pair of bodies.
C6_StaticBodiesKept ==
    /\ rbrun.last \in {"gravity", "resolve"} => StaticsKept(rbrun.prev, rb_bodies)
    /\ (rbrun.last = "detect" /\ Len(rb_bodies) = 2) =>
           \A n \in PassCounts :
               StaticsKept(rb_bodies,
                           ResolvePasses(rb_simulator, rb_bodies, rb_collisions, n))

\* A resolution pass has changed the dynamic body of a pair whose other body is Static and
\* first in the pair, over two contact points.
C6_Witness ==
    /\ rbrun.last = "resolve"
    /\ rb_bodies # rbrun.prev
    /\ \E k \in 1..Len(rb_collisions) :
           /\ rb_bodies[rb_collisions[k].index_a + 1].state.behaviour = "Static"
           /\ Len(rb_collisions[k].collision_data.collision_points) = 2
           /\ rb_bodies[rb_collisions[k].index_b + 1] # rbrun.prev[rb_collisions[k].index_b + 1]

(***************************************************************************)
(* Specification of Game::physics_update: one frame over a game of 72 by   *)
(* 72 with a ball and some particles added, statement by statement. The    *)
(* bodies and particles lie on the vertical line x = 36. `game` also keeps *)
(* the history of the frame: the events so far and the bodies that the     *)
(* fluid step and the rigid-body step were given.                          *)
(***************************************************************************)
\* A particle that hits a body of mass 10/3 loses its whole speed along the normal, one
\* that hits a body of mass 5/8 half of it.
GameMasses == {<<10, 3>>, <<5, 8>>}

\* The ball in the air, and resting on the floor (whose top is at y = 52).
GameBalls ==
    {Moving(new_circle(VI(36, y), I(4), "Dynamic"), m, zero, I(0)) :
         y \in {30, 48}, m \in GameMasses}

\* Particles at rest one above the ball in the air, one above the ball on the floor, one
\* above the floor; those of one scene are farther apart than the smoothing radius.
GameParticles ==
    {<<Particle_new_with_velocity(VI(36, 25), zero)>>,
     <<Particle_new_with_velocity(VI(36, 43), zero)>>,
     <<Particle_new_with_velocity(VI(36, 25), zero),
       Particle_new_with_velocity(VI(36, 51), zero)>>}

\* Two particles at rest within the smoothing radius of each other.
GameParticlePairs ==
    {<<Particle_new_with_velocity(VI(36, 21), zero),
       Particle_new_with_velocity(VI(36, 27), zero)>>}

Jitters == {zero, V(I(0), <<1, 4>>)}

UnitChoices == {VI(1, 0), VI(0, 1), V(<<3, 5>>, <<4, 5>>)}

MousePositions == {VI(36, 30), VI(36, 50), VI(5, 5), VI(30, 40)}

RECURSIVE AddParticles(_, _, _)
AddParticles(fluid, particles, jitter) ==
    IF particles = <<>> THEN fluid
    ELSE AddParticles(add_particle(fluid, Head(particles), jitter), Tail(particles), jitter)

\* The distance runge_kutta advances a value in one step of length dt at rate 1.
Advance(dt) == runge_kutta(I(0), dt, I(1))

GameWorld == Game_new(72, 72)

\* The gravity under which a value at rest advances by 1 in a step of the length dt.
FallByOne(fall) == V(I(0), RDiv(I(1), RMul(fall, fall)))

\* Every sub-step has the length 2. The fluid gravity is set so that a particle at rest
\* falls by 1 in its first sub-step, the body gravity so that a body at rest does so in its
\* first step.
GameConfigOf(n, base) ==
    [GameWorld.game_config EXCEPT
        !.time_step = I(2 * n), !.sub_steps = n,
        !.gravity = FallByOne(Advance(I(2 * n))),
        !.sph_config = [base_pressure |-> I(1), base_body_force |-> base,
                        gravity |-> FallByOne(Advance(I(2)))]]

\* The drawn ball, particles, jitter, number of sub-steps and body force base; the close
\* pair of particles is taken through one sub-step only.
GameChoices ==
    {c \in GameBalls \X (GameParticles \cup GameParticlePairs) \X Jitters
               \X (1..MaxSubSteps) \X {I(1), I(50)} :
        c[2] \in GameParticlePairs => c[4] = 1}

GameStarts ==
    {[bodies |-> Append(GameWorld.bodies, c[1]),
      fluid_system |-> AddParticles(GameWorld.fluid_system, c[2], c[3]),
      game_config |-> GameConfigOf(c[4], c[5])] : c \in GameChoices}

GameInit ==
    /\ \E start \in GameStarts :
           /\ rb_bodies = start.bodies
           /\ fluid_system = start.fluid_system
           /\ game_config = start.game_config
    /\ rb_simulator = GameWorld.rb_simulator
    /\ game = [is_simulating |-> GameWorld.is_simulating,
               info_panel |-> GameWorld.info_panel,
               pc |-> "begin", dt |-> I(0), k |-> 0, pending |-> <<>>,
               trace |-> <<>>, fluid_saw |-> <<>>, moved |-> <<>>, returned |-> <<>>,
               rb_saw |-> <<>>, after_rb |-> <<>>]
    /\ rb_collisions = <<>>
    /\ rbrun = NoRun
    /\ IdleExcept({"rb", "game"})

GameEvent(ev, index, accumulation) ==
    [ev |-> ev, k |-> game.k, index |-> index, accumulation |-> accumulation]

\* toggle_pause, between frames.
GameTogglePause ==
    /\ game.pc = "begin"
    /\ game' = [game EXCEPT !.is_simulating = ~game.is_simulating,
                            !.info_panel.is_simulating = ~game.is_simulating]
    /\ UNCHANGED <<rbVars, fluid_system, notGame>>

\* physics_update up to the loop: dt, and whether the loop is entered.
GamePhysicsUpdateBegin ==
    /\ game.pc = "begin"
    /\ game' = [game EXCEPT
                   !.dt = IF game.is_simulating
                          THEN RDiv(game_config.time_step, I(game_config.sub_steps))
                          ELSE game.dt,
                   !.k = 0,
                   !.pc = IF game.is_simulating /\ 0 < game_config.sub_steps
                          THEN "fluid" ELSE "setup"]
    /\ UNCHANGED <<rbVars, fluid_system, notGame>>

\* fluid_system.step(&rb_simulator.bodies, &game_config, dt)
GameFluidStep ==
    /\ game.pc = "fluid"
    /\ \E unit \in UnitChoices :
           \E r \in {Sph_step(fluid_system, rb_bodies, game_config, game.dt, unit)} :
              /\ fluid_system' = r.sph
              /\ game' = [game EXCEPT
                             !.pending = r.body_forces,
                             !.pc = physics_update_pc(r.body_forces),
                             !.trace = Append(game.trace,
                                 GameEvent("fluid", Len(r.body_forces), r.body_forces)),
                             !.fluid_saw = rb_bodies,
                             !.moved = MovedSystem(fluid_system, game_config,
                                                   game.dt, unit),
                             !.returned = r.body_forces]
    /\ UNCHANGED <<rbVars, notGame>>

\* One turn of `for (index, force_accumulation) in fluid_forces_on_bodies`.
GameApplyFluidForce ==
    /\ game.pc = "forces"
    /\ \E entry \in {Head(game.pending)} :
          /\ rb_bodies' =
                 [rb_bodies EXCEPT ![entry.index + 1].state =
                     apply_accumulated_forces(
                         add_force_accumulation(rb_bodies[entry.index + 1].state,
                                                entry.force_accumulation),
                         game.dt)]
          /\ game' = [game EXCEPT
                         !.pending = Tail(game.pending),
                         !.pc = physics_update_pc(Tail(game.pending)),
                         !.trace = Append(game.trace,
                             GameEvent("force", entry.index, entry.force_accumulation))]
    /\ UNCHANGED <<rb_collisions, rb_simulator, game_config, rbrun, fluid_system, notGame>>

\* rb_simulator.step(&game_config, dt) is entered.
GameRbStepCall ==
    /\ game.pc = "rb_call"
    /\ rbrun' = [pc |-> "start", dt |-> game.dt, pass |-> 0, last |-> "none", prev |-> <<>>]
    /\ game' = [game EXCEPT !.pc = "rb_wait", !.rb_saw = rb_bodies,
                            !.trace = Append(game.trace,
                                GameEvent("rb_begin", Len(game.pending), game.pending))]
    /\ UNCHANGED <<rb_bodies, rb_collisions, rb_simulator, game_config, fluid_system,
                   notGame>>

\* rb_simulator.step has returned: the end of the loop body.
GameRbStepReturn ==
    /\ game.pc = "rb_wait"
    /\ rbrun.pc = "done"
    /\ rbrun' = NoRun
    /\ game' = [game EXCEPT
                   !.k = game.k + 1,
                   !.pc = IF game.k + 1 < game_config.sub_steps THEN "fluid" ELSE "setup",
                   !.after_rb = rb_bodies,
                   !.trace = Append(game.trace, GameEvent("rb_end", 0, <<>>))]
    /\ UNCHANGED <<rb_bodies, rb_collisions, rb_simulator, game_config, fluid_system,
                   notGame>>

\* After the loop: the counts and the entity under the mouse go to the info panel.
\* renderer.setup only reads the fluid system.
GameInfoPanel ==
    /\ game.pc = "setup"
    /\ \E mouse_pos \in MousePositions :
           game' = [game EXCEPT
                       !.pc = "done",
                       !.info_panel.particle_count = Len(fluid_system.particles),
                       !.info_panel.body_count = Len(rb_bodies),
                       !.info_panel.under_mouse_entity =
                           under_mouse_entity(rb_bodies, fluid_system, mouse_pos)]
    /\ UNCHANGED <<rbVars, fluid_system, notGame>>

GameNext ==
    \/ GameTogglePause
    \/ GamePhysicsUpdateBegin
    \/ GameFluidStep
    \/ GameApplyFluidForce
    \/ GameRbStepCall
    \/ RbStepBegin
    \/ RbApplyGravity
    \/ RbCheckCollisions
    \/ RbResolveCollisions
    \/ RbMoveBodies
    \/ RbUpdateInnerValues
    \/ GameRbStepReturn
    \/ GameInfoPanel

SpecGame == GameInit /\ [][GameNext]_vars

(***************************************************************************)
(* Claims about the order of a sub-step.                                   *)
(***************************************************************************)
\* The bodies after every returned (index, force accumulation) has been added to
\* bodies[index] and integrated, in the returned order.
RECURSIVE ApplyReturned(_, _, _)
ApplyReturned(bodies, returned, dt) ==
    IF returned = <<>> THEN bodies
    ELSE ApplyReturned(
             [bodies EXCEPT ![Head(returned).index + 1].state =
                 apply_accumulated_forces(
                     add_force_accumulation(@, Head(returned).force_accumulation), dt)],
             Tail(returned), dt)

\* The place in the trace of the fluid step of the sub-step that event i belongs to.
FluidEventOf(i) ==
    CHOOSE j \in 1..i :
        /\ game.trace[j].ev = "fluid"
        /\ \A m \in (j + 1)..i : game.trace[m].ev # "fluid"

\* Event i of the trace is in its place: a fluid step opens the frame or follows the end
\* of the rigid-body step of the sub-step before; the n-th force applied after it is the
\* n-th entry the fluid step returned; the rigid-body step begins after the last of them
\* with nothing left to apply, and ends before anything else happens.
EventInPlace(i) ==
    CASE game.trace[i].ev = "fluid" ->
             IF i = 1 THEN game.trace[i].k = 0
             ELSE /\ game.trace[i - 1].ev = "rb_end"
                  /\ game.trace[i - 1].k + 1 = game.trace[i].k
      [] game.trace[i].ev = "force" ->
             /\ i > 1
             /\ game.trace[i - 1].ev \in {"fluid", "force"}
             /\ game.trace[i - 1].k = game.trace[i].k
             /\ i - FluidEventOf(i) <= Len(game.trace[FluidEventOf(i)].accumulation)
             /\ game.trace[FluidEventOf(i)].accumulation[i - FluidEventOf(i)] =
                    [index |-> game.trace[i].index,
                     force_accumulation |-> game.trace[i].accumulation]
      [] game.trace[i].ev = "rb_begin" ->
             /\ i > 1
             /\ game.trace[i - 1].ev \in {"fluid", "force"}
             /\ game.trace[i - 1].k = game.trace[i].k
             /\ i - FluidEventOf(i) - 1 = Len(game.trace[FluidEventOf(i)].accumulation)
             /\ game.trace[i].accumulation = <<>>
      [] game.trace[i].ev = "rb_end" ->
             /\ i > 1
             /\ game.trace[i - 1].ev = "rb_begin"
             /\ game.trace[i - 1].k = game.trace[i].k

\* C7: in every sub-step of physics_update the fluid step runs first, on the bodies as the
\* sub-step before left them; every returned (index, force accumulation) is then added to
\* bodies[index] and integrated; only then does the rigid-body step run, on the bodies so
\* changed. No rigid-body step starts before all the returned forces of its sub-step are
\* applied, and no fluid step starts before the rigid-body step of the sub-step before has
\* finished.
C7_SubStepOrder ==
    /\ \A i \in 1..Len(game.trace) : EventInPlace(i)
    /\ (game.pc \in {"forces", "rb_call", "rb_wait"} /\ game.k > 0) =>
           game.fluid_saw = game.after_rb
    /\ game.pc = "rb_wait" =>
           game.rb_saw = ApplyReturned(game.fluid_saw, game.returned, game.dt)
    /\ game.pc \in {"fluid", "forces", "rb_call"} => rbrun = NoRun
    /\ rbrun # NoRun => game.pc = "rb_wait" /\ game.pending = <<>>

\* A frame of two sub-steps has ended; in the second one the fluid pushed a body, whose
\* velocity the returned force changed before the rigid-body step began.
C7_Witness ==
    /\ game.pc = "done"
    /\ game.k = 2
    /\ \E i \in 1..Len(game.trace) :
           /\ game.trace[i].ev = "force"
           /\ game.trace[i].k = 1
           /\ game.trace[i].accumulation.force # zero
           /\ game.rb_saw[game.trace[i].index + 1].state.velocity #
                  game.fluid_saw[game.trace[i].index + 1].state.velocity

(***************************************************************************)
(* Specification of an inelastic landing: one RbSimulator::step over a     *)
(* static floor and a dynamic body of elasticity 0 that does not spin.     *)
(***************************************************************************)
\* A dynamic body with the elasticity 0, moving without spin.
Inelastic(body, m, velocity) ==
    [Moving(body, m, velocity, I(0)) EXCEPT !.state.elasticity = Value(I(0))]

\* Bodies in the floor by more than SLOP (the box at -3, the triangle) and by less (the
\* box at -9/2, the balls); the second ball touches the floor off its own centre line.
Landing ==
    {Rectangle(VI(0, -3), I(5), I(5), "Dynamic"),
     Rectangle(V(I(0), <<-9, 2>>), I(5), I(5), "Dynamic"),
     new_polygon(V(I(0), <<-9, 2>>), <<VI(-1, -1), VI(2, -1), VI(-1, 3)>>, "Dynamic"),
     new_circle(VI(0, -4), I(2), "Dynamic"),
     new_circle(V(I(3), <<-7, 2>>), I(2), "Dynamic")}

LandingVelocities == {VI(0, 0), VI(0, 3), VI(3, 1)}

InelasticScenes ==
    {<<st, Inelastic(d, m, v)>> :
         st \in {Floor, PassingShared(Floor)}, d \in Landing, m \in RbMasses,
         v \in LandingVelocities}

InelasticInit ==
    /\ \E s \in InelasticScenes : rb_bodies \in {s, <<s[2], s[1]>>}
    /\ rb_collisions = <<>>
    /\ rb_simulator = RbSimulator_new(VI(0, 981))
    /\ \E n \in 0..MaxIterations :
           game_config = [time_step |-> I(2), sub_steps |-> 1, gravity |-> VI(0, 10),
                          rb_config |-> [elasticity_selection |-> "Min",
                                         friction_selection |-> "Average",
                                         iterations |-> n]]
    /\ rbrun = [pc |-> "start", dt |-> I(2), pass |-> 0, last |-> "none", prev |-> <<>>]
    /\ IdleExcept({"rb"})

SpecInelastic == InelasticInit /\ [][RbNext]_vars

\* The collision is between a Static and a Dynamic body whose combined elasticity is 0,
\* the dynamic one (at the 0-based index dyn) came without spin and was approaching along
\* the normal, which points from body A to body B.
InelasticLanding(coll, dyn) ==
    /\ rbrun.prev[dyn + 1].state.behaviour = "Dynamic"
    /\ rbrun.prev[coll.index_a + coll.index_b - dyn + 1].state.behaviour = "Static"
    /\ rbrun.prev[dyn + 1].state.angular_velocity = I(0)
    /\ select(rb_simulator.elasticity_selection,
              rbrun.prev[coll.index_a + 1].state.elasticity,
              rbrun.prev[coll.index_b + 1].state.elasticity) = I(0)
    /\ IF dyn = coll.index_a
       THEN RGt(dot(rbrun.prev[dyn + 1].state.velocity, coll.collision_data.normal), I(0))
       ELSE RLt(dot(rbrun.prev[dyn + 1].state.velocity, coll.collision_data.normal), I(0))

\* C11: after the impulse resolution of a collision between a Static body and a Dynamic
\* body that came without spin, with the combined elasticity 0, the velocity of the
\* dynamic body along the collision normal is zero, for manifolds of one and of two
\* points.
C11_NormalVelocityZero ==
    (rbrun.last = "resolve" /\ Len(rb_collisions) = 1) =>
        \A dyn \in {rb_collisions[1].index_a, rb_collisions[1].index_b} :
            InelasticLanding(rb_collisions[1], dyn) =>
                dot(rb_bodies[dyn + 1].state.velocity,
                    rb_collisions[1].collision_data.normal) = I(0)

\* The part of C11 that the model keeps: a single contact point that lies on the line
\* through the body's centre along the normal, with a penetration of at most SLOP.
C11_RadialShallowContact ==
    (rbrun.last = "resolve" /\ Len(rb_collisions) = 1) =>
        \A dyn \in {rb_collisions[1].index_a, rb_collisions[1].index_b} :
            (/\ InelasticLanding(rb_collisions[1], dyn)
             /\ Len(rb_collisions[1].collision_data.collision_points) = 1
             /\ RLe(rb_collisions[1].collision_data.penetration, SLOP)
             /\ cross(VSub(rb_collisions[1].collision_data.collision_points[1],
                           center_of_mass(rbrun.prev[dyn + 1])),
                      rb_collisions[1].collision_data.normal) = I(0)) =>
                dot(rb_bodies[dyn + 1].state.velocity,
                    rb_collisions[1].collision_data.normal) = I(0)

(***************************************************************************)
(* Serialized forms of bodies, particles and the fluid system.             *)
(***************************************************************************)
\* #[derive(Default)] of BodyState and of Particle.
BodyState_default ==
    [position |-> zero, velocity |-> zero, angular_velocity |-> I(0), orientation |-> I(0),
     behaviour |-> "Dynamic", mass |-> I(0), moment_of_inertia |-> I(0),
     elasticity |-> Value(I(0)), static_friction |-> Value(I(0)),
     dynamic_friction |-> Value(I(0)), color |-> Color_default,
     accumulated_force |-> zero, accumulated_torque |-> I(0)]

Particle_default ==
    [position |-> zero, predicted_position |-> zero, velocity |-> zero,
     sph_density |-> I(0), sph_near_density |-> I(0), mass |-> I(0),
     target_density |-> I(0), pressure_multiplier |-> I(0),
     body_collision_force_multiplier |-> I(0), accumulated_force |-> zero,
     color |-> Color_default, id |-> 0]

\* From<BodyState> for BodyStateSerializedForm
BodyState_into_serialized(body_state) ==
    [position |-> body_state.position, orientation |-> body_state.orientation,
     behaviour |-> body_state.behaviour, mass |-> body_state.mass,
     moment_of_inertia |-> body_state.moment_of_inertia,
     elasticity |-> body_state.elasticity, static_friction |-> body_state.static_friction,
     dynamic_friction |-> body_state.dynamic_friction, color |-> body_state.color]

\* From<BodyStateSerializedForm> for BodyState
BodyState_from_serialized(serialized_from) ==
    [BodyState_default EXCEPT
        !.position = serialized_from.position, !.orientation = serialized_from.orientation,
        !.behaviour = serialized_from.behaviour, !.mass = serialized_from.mass,
        !.moment_of_inertia = serialized_from.moment_of_inertia,
        !.elasticity = serialized_from.elasticity,
        !.static_friction = serialized_from.static_friction,
        !.dynamic_friction = serialized_from.dynamic_friction,
        !.color = serialized_from.color]

\* RigidBody::to_serialized_form
RigidBody_to_serialized_form(self) ==
    IF self.kind = "Polygon"
    THEN [kind |-> "Polygon", state |-> BodyState_into_serialized(self.state),
          points |-> self.points]
    ELSE [kind |-> "Circle", state |-> BodyState_into_serialized(self.state),
          radius |-> self.radius]

\* `*body.state_mut() = state` on the freshly made body.
WithState(body, state) == [body EXCEPT !.state = state]

PolygonFromState(points, state) ==
    WithState(new_polygon(state.position, points, state.behaviour), state)

CircleFromState(radius, state) ==
    WithState(new_circle(state.position, radius, state.behaviour), state)

\* RigidBody::from_serialized_form
RigidBody_from_serialized_form(serialized_form) ==
    IF serialized_form.kind = "Polygon"
    THEN PolygonFromState(serialized_form.points,
                          BodyState_from_serialized(serialized_form.state))
    ELSE CircleFromState(serialized_form.radius,
                         BodyState_from_serialized(serialized_form.state))

\* Particle::to_serialized_form
Particle_to_serialized_form(self) ==
    [position |-> self.position, mass |-> self.mass,
     target_density |-> self.target_density,
     pressure_multiplier |-> self.pressure_multiplier,
     body_collision_force_multiplier |-> self.body_collision_force_multiplier,
     color |-> self.color]

\* Particle::from_serialized_form
Particle_from_serialized_form(serialized_form) ==
    [Particle_default EXCEPT
        !.position = serialized_form.position, !.mass = serialized_form.mass,
        !.target_density = serialized_form.target_density,
        !.pressure_multiplier = serialized_form.pressure_multiplier,
        !.body_collision_force_multiplier = serialized_form.body_collision_force_multiplier,
        !.color = serialized_form.color]

\* Sph::to_serialized_form
Sph_to_serialized_form(self) ==
    [particles |-> [i \in 1..Len(self.particles) |->
                       Particle_to_serialized_form(self.particles[i])],
     width |-> self.lookup.width, height |-> self.lookup.height]

\* The loop `for p in particles { sph.add_particle(p) }`; jitters[i] is the offset drawn
\* for the i-th particle.
RECURSIVE AddSerialized(_, _, _)
AddSerialized(sph, particles, jitters) ==
    IF particles = <<>> THEN sph
    ELSE AddSerialized(add_particle(sph, Particle_from_serialized_form(Head(particles)),
                                    Head(jitters)),
                       Tail(particles), Tail(jitters))

\* Sph::from_serialized_form
Sph_from_serialized_form(serialized_form, jitters) ==
    AddSerialized(Sph_new(serialized_form.width, serialized_form.height),
                  serialized_form.particles, jitters)

(***************************************************************************)
(* Specification of the round trips: a drawn body, particle or fluid       *)
(* system is converted to its serialized form and back.                    *)
(***************************************************************************)
SerialShapes ==
    {Rectangle(VI(3, 4), I(4), I(2), "Dynamic"), Rectangle(VI(0, 0), I(20), I(5), "Static"),
     new_polygon(VI(1, 1), <<VI(-1, -1), VI(2, -1), VI(-1, 3)>>, "Dynamic"),
     new_circle(VI(5, 5), I(2), "Dynamic"), new_circle(VI(0, 0), I(3), "Static")}

SerialColors == {Color_rgb(0, 0, 0), Color_rgb(255, 51, 0)}

\* Bodies as a running game holds them: coloured, with shared properties of their own or
\* passing, at rest or moving and spinning, with forces waiting or not.
SerialBodies ==
    {[b EXCEPT !.state.velocity = v, !.state.angular_velocity = w, !.state.color = c,
               !.state.accumulated_force = f] :
        b \in SerialShapes \cup {PassingShared(x) : x \in SerialShapes},
        v \in {zero, VI(3, -1)}, w \in {I(0), I(1)}, c \in SerialColors,
        f \in {zero, VI(0, 10)}}

\* Particles as a running fluid system holds them.
SerialParticles ==
    {[Particle_set_mass(Particle_new_with_velocity(pos, v), m) EXCEPT
         !.color = c, !.sph_density = d, !.id = n] :
        pos \in {VI(30, 30), VI(36, 43)}, v \in {zero, VI(0, 2)}, m \in {I(1), I(2)},
        c \in SerialColors, d \in {I(0), I(1)}, n \in {0, 1}}

SerialSystems ==
    {AddParticles(Sph_new(I(72), I(72)), <<p, q>>, zero) :
        p \in {Particle_new_with_velocity(VI(30, 30), zero),
               Particle_new_with_velocity(VI(30, 30), VI(0, 2))},
        q \in {Particle_new_with_velocity(VI(36, 43), zero)}}

SerialInit ==
    /\ \/ \E b \in SerialBodies : ser = [pc |-> "body", original |-> b, restored |-> <<>>]
       \/ \E p \in SerialParticles :
              ser = [pc |-> "particle", original |-> p, restored |-> <<>>]
       \/ \E s \in SerialSystems : ser = [pc |-> "sph", original |-> s, restored |-> <<>>]
    /\ IdleExcept({"serial"})

SerialBody ==
    /\ ser.pc = "body"
    /\ ser' = [ser EXCEPT !.pc = "body_done",
                          !.restored = RigidBody_from_serialized_form(
                                           RigidBody_to_serialized_form(ser.original))]
    /\ UNCHANGED notSerial

SerialParticle ==
    /\ ser.pc = "particle"
    /\ ser' = [ser EXCEPT !.pc = "particle_done",
                          !.restored = Particle_from_serialized_form(
                                           Particle_to_serialized_form(ser.original))]
    /\ UNCHANGED notSerial

SerialSph ==
    /\ ser.pc = "sph"
    /\ \E j1 \in Jitters, j2 \in Jitters :
           ser' = [ser EXCEPT !.pc = "sph_done",
                              !.restored = Sph_from_serialized_form(
                                               Sph_to_serialized_form(ser.original),
                                               <<j1, j2>>)]
    /\ UNCHANGED notSerial

SerialNext ==
    \/ SerialBody
    \/ SerialParticle
    \/ SerialSph

SpecSerial == SerialInit /\ [][SerialNext]_vars

BodyFields ==
    {"position", "velocity", "angular_velocity", "orientation", "behaviour", "mass",
     "moment_of_inertia", "elasticity", "static_friction", "dynamic_friction", "color"}

ParticleFields ==
    {"position", "velocity", "mass", "target_density", "pressure_multiplier",
     "body_collision_force_multiplier", "color"}

SameShape(a, b) ==
    /\ a.kind = b.kind
    /\ IF a.kind = "Polygon" THEN a.points = b.points ELSE a.radius = b.radius

\* C12: a body or a particle converted to its serialized form and back equals the
\* original in every persistent field: position, velocity, angular velocity, orientation,
\* behaviour, mass, moment of inertia, elasticity, the two frictions, colour and shape of
\* a body; position, velocity, mass, target density, pressure multiplier, body collision
\* force multiplier and colour of a particle, also when the particle is restored as part
\* of its fluid system.
C12_RoundTripKeepsPersistentFields ==
    /\ ser.pc = "body_done" =>
           /\ \A f \in BodyFields : ser.restored.state[f] = ser.original.state[f]
           /\ SameShape(ser.restored, ser.original)
    /\ ser.pc = "particle_done" =>
           \A f \in ParticleFields : ser.restored[f] = ser.original[f]
    /\ ser.pc = "sph_done" =>
           /\ Len(ser.restored.particles) = Len(ser.original.particles)
           /\ \A i \in 1..Len(ser.original.particles) :
                  \A f \in ParticleFields :
                      ser.restored.particles[i][f] = ser.original.particles[i][f]

\* The part of C12 that the model keeps: every persistent field but the velocities, and
\* but the position of a particle restored through Sph::from_serialized_form.
C12_RoundTripKeepsAllButVelocity ==
    /\ ser.pc = "body_done" =>
           /\ \A f \in BodyFields \ {"velocity", "angular_velocity"} :
                  ser.restored.state[f] = ser.original.state[f]
           /\ SameShape(ser.restored, ser.original)
           /\ ser.restored.state.velocity = zero
           /\ ser.restored.state.angular_velocity = I(0)
    /\ ser.pc = "particle_done" =>
           /\ \A f \in ParticleFields \ {"velocity"} : ser.restored[f] = ser.original[f]
           /\ ser.restored.velocity = zero
    /\ ser.pc = "sph_done" =>
           \A i \in 1..Len(ser.original.particles) :
               \A f \in ParticleFields \ {"velocity", "position"} :
                   ser.restored.particles[i][f] = ser.original.particles[i][f]

(***************************************************************************)
(* Claims about the step length of the integrations.                       *)
(***************************************************************************)
\* C13: inside a sub-step of physics_update with time_step T and sub_steps n the gravity
\* integration of the bodies and their position/orientation integration use the step the
\* sub-step was called with, T / n.
C13_BodyIntegrationsUseSubStep ==
    /\ (rbrun # NoRun /\ rbrun.last = "gravity") =>
           /\ rbrun.dt = RDiv(game_config.time_step, I(game_config.sub_steps))
           /\ rb_bodies = apply_gravity(rb_simulator, rbrun.prev, rbrun.dt)
    /\ (rbrun # NoRun /\ rbrun.last = "move") =>
           rb_bodies = move_bodies_by_velocity(rbrun.prev, rbrun.dt)

\* What the model keeps of C13: the body integrations use the step T / n when n = 1.
C13_SingleSubStepUsesTimeStep ==
    game_config.sub_steps = 1 =>
        /\ (rbrun # NoRun /\ rbrun.last = "gravity") =>
               rb_bodies = apply_gravity(rb_simulator, rbrun.prev, rbrun.dt)
        /\ (rbrun # NoRun /\ rbrun.last = "move") =>
               rb_bodies = move_bodies_by_velocity(rbrun.prev, rbrun.dt)

(***************************************************************************)
(* Specification of a fluid system that particles are added to, with the   *)
(* density and pressure sums taken between the additions.                  *)
(***************************************************************************)
MaxParticles == 3

\* The particles handed to add_particle: fresh ones (id 0) and ones that were stored
\* before and still carry an id.
IncomingParticles ==
    {[Particle_new_with_velocity(pos, zero) EXCEPT !.id = n] :
        pos \in {VI(30, 30), VI(30, 36)}, n \in {0, 1, 7}}

ParticlesInit ==
    /\ fluid_system = Sph_new(I(72), I(72))
    /\ game = <<>>
    /\ IdleExcept({"game"})

SphAddParticle ==
    /\ Len(fluid_system.particles) < MaxParticles
    /\ \E particle \in IncomingParticles, jitter \in Jitters :
           fluid_system' = add_particle(fluid_system, particle, jitter)
    /\ UNCHANGED <<game, rbVars, notGame>>

SphCalculateDensities ==
    /\ fluid_system' = calculate_densities(fluid_system)
    /\ UNCHANGED <<game, rbVars, notGame>>

\* apply_pressures on particles whose accumulated force is still empty.
SphApplyPressures ==
    /\ \A i \in 1..Len(fluid_system.particles) :
           fluid_system.particles[i].accumulated_force = zero
    /\ \E unit \in UnitChoices : fluid_system' = apply_pressures(fluid_system, unit)
    /\ UNCHANGED <<game, rbVars, notGame>>

ParticlesNext ==
    \/ SphAddParticle
    \/ SphCalculateDensities
    \/ SphApplyPressures

SpecParticles == ParticlesInit /\ [][ParticlesNext]_vars

\* The system with every particle's id replaced by its index in the storage.
WithIndexIds(self) ==
    [self EXCEPT !.particles = [i \in 1..Len(self.particles) |->
                                   [self.particles[i] EXCEPT !.id = i]]]

\* The indices the lookup yields around the predicted position of particle i.
NeighborsOf(self, i) ==
    LLItems(get_immediate_neighbors(self.lookup, self.particles[i].predicted_position))

\* C14: after any sequence of add_particle calls the ids of the stored particles are
\* strictly increasing in insertion order (hence pairwise distinct), whatever id the
\* passed-in particles carried; the density and pressure sums of a particle leave out
\* exactly the particle itself, and a different particle at the identical predicted
\* position that the lookup yields contributes its mass times the kernel at distance 0.
C14_IdsIncreaseInInsertionOrder ==
    /\ \A i, j \in 1..Len(fluid_system.particles) :
           i < j => fluid_system.particles[i].id < fluid_system.particles[j].id
    /\ \A i \in 1..Len(fluid_system.particles) :
           /\ DensitiesOf(fluid_system, fluid_system.particles[i]).sph_density =
                  DensitiesOf(WithIndexIds(fluid_system),
                              WithIndexIds(fluid_system).particles[i]).sph_density
           /\ \A unit \in UnitChoices :
                  PressureOn(fluid_system, fluid_system.particles[i], unit).accumulated_force =
                      PressureOn(WithIndexIds(fluid_system),
                                 WithIndexIds(fluid_system).particles[i],
                                 unit).accumulated_force
    /\ \A i, j \in 1..Len(fluid_system.particles) :
           (/\ i # j
            /\ fluid_system.particles[i].predicted_position =
                   fluid_system.particles[j].predicted_position
            /\ \E n \in 1..Len(NeighborsOf(fluid_system, i)) :
                   NeighborsOf(fluid_system, i)[n] = j - 1)
           => RGe(DensitiesOf(fluid_system, fluid_system.particles[i]).sph_density,
                  RMul(fluid_system.particles[j].mass,
                       kernel(I(0), fluid_system.smoothing_radius)))

\* Three particles are stored, two of them at the identical position, and the density
\* sum of the first has been taken and counts the other.
C14_Witness ==
    /\ Len(fluid_system.particles) = MaxParticles
    /\ fluid_system.particles[1].position = fluid_system.particles[2].position
    /\ fluid_system.particles[1].predicted_position =
           fluid_system.particles[2].predicted_position
    /\ RGt(fluid_system.particles[1].sph_density, I(0))
    /\ fluid_system.particles[1].accumulated_force # zero

(***************************************************************************)
(* Specification of a fluid stepped inside the closed box of the four      *)
(* static walls of Game::new.                                              *)
(***************************************************************************)
MaxSteps == 2

\* The sub-step length of the box runs: runge_kutta advances a value by 6 times its rate.
BoxStep == I(2)

\* The region the walls of the 72 x 72 world enclose: [20, 52] x [20, 52].
BoxLow == I(20)

BoxHigh == I(52)

InBox(position) ==
    /\ RGe(position.x, BoxLow) /\ RLe(position.x, BoxHigh)
    /\ RGe(position.y, BoxLow) /\ RLe(position.y, BoxHigh)

BoxPositions == {VI(24, 50), VI(36, 50), VI(24, 36), VI(36, 36), VI(48, 24), VI(50, 36)}

BoxVelocities == {VI(0, 0), VI(0, 1), VI(-1, 0), VI(-1, 1), VI(1, -1), VI(1, 0), VI(0, -1)}

BoxConfig ==
    [GameWorld.game_config EXCEPT
        !.time_step = BoxStep, !.sub_steps = 1,
        !.sph_config = [base_pressure |-> I(1), base_body_force |-> I(1), gravity |-> zero]]

BoxInit ==
    /\ \E pos \in BoxPositions, velocity \in BoxVelocities :
           fluid_system = add_particle(GameWorld.fluid_system,
                                       Particle_new_with_velocity(pos, velocity), zero)
    /\ rb_bodies = GameWorld.bodies
    /\ game_config = BoxConfig
    /\ game = [k |-> 0]
    /\ rb_collisions = <<>>
    /\ rb_simulator = <<>>
    /\ rbrun = NoRun
    /\ IdleExcept({"rb", "game"})

\* fluid_system.step(&bodies, &game_config, dt) with the walls as the only bodies.
BoxFluidStep ==
    /\ game.k < MaxSteps
    /\ \E unit \in UnitChoices :
           fluid_system' = Sph_step(fluid_system, rb_bodies, game_config, BoxStep, unit).sph
    /\ game' = [k |-> game.k + 1]
    /\ UNCHANGED <<rbVars, notGame>>

BoxNext == BoxFluidStep

SpecBox == BoxInit /\ [][BoxNext]_vars

\* C15: with all particles starting inside the region the four static walls enclose,
\* after every Sph::step every particle's position is inside the box bounds.
C15_ParticlesStayInBox ==
    game.k > 0 =>
        \A i \in 1..Len(fluid_system.particles) : InBox(fluid_system.particles[i].position)

\* What the model keeps of C15: a particle that ends a step outside the box lies on the
\* surface of the left or the right wall (the walls handled last) and inside the bottom
\* or the top wall (the walls handled first).
C15_OutsideOnlyAtCorners ==
    game.k > 0 =>
        \A i \in 1..Len(fluid_system.particles) :
            ~InBox(fluid_system.particles[i].position) =>
                /\ fluid_system.particles[i].position.x \in {BoxLow, BoxHigh}
                /\ \/ contains_point(rb_bodies[1], fluid_system.particles[i].position)
                   \/ contains_point(rb_bodies[2], fluid_system.particles[i].position)

(***************************************************************************)
(* Specification of check_collision on a polygon and a circle, called in   *)
(* both orders.                                                            *)
(***************************************************************************)
\* Whether f32::sqrt of the value is modelled: the square of a rational.
IsSquare(a) ==
    /\ a[1] >= 0
    /\ FloorSqrt(a[1], 0, Min(a[1], 46340)) * FloorSqrt(a[1], 0, Min(a[1], 46340)) = a[1]
    /\ FloorSqrt(a[2], 0, Min(a[2], 46340)) * FloorSqrt(a[2], 0, Min(a[2], 46340)) = a[2]

MaxReach == 4

\* Circle centres on the grid of halves around the polygon.
MixedCentres ==
    {V(Frac(x, 2), Frac(y, 2)) : x \in (-2 * MaxReach)..(2 * MaxReach),
                                 y \in (-2 * MaxReach)..(2 * MaxReach)}

ClosestTo(polygon, center) ==
    ClosestOfLines(polygon, global_lines(polygon), center,
                   [min_distance_sq |-> F32_MAX, min_point |-> zero, normal |-> zero])

\* The scenes whose closest distance has a modelled square root.
MixedScenes(shapes, centres) ==
    {sc \in {[polygon |-> ShapeAt(s, VI(0, 0)), circle |-> new_circle(c, I(r), "Dynamic")] :
                s \in shapes, c \in centres, r \in 1..MaxRadius} :
        IsSquare(ClosestTo(sc.polygon, sc.circle.state.position).min_distance_sq)}

MixedInit ==
    /\ \E sc \in MixedScenes(PolygonShapes, MixedCentres) :
           poly = [polygon |-> sc.polygon, circle |-> sc.circle, called |-> FALSE,
                   forward |-> None, swapped |-> None]
    /\ IdleExcept({"polygon"})

\* check_collision(polygon, circle) and check_collision(circle, polygon).
MixedCheck ==
    /\ ~poly.called
    /\ poly' = [poly EXCEPT !.called = TRUE,
                            !.forward = check_collision(poly.polygon, poly.circle),
                            !.swapped = check_collision(poly.circle, poly.polygon)]
    /\ UNCHANGED notPolygon

MixedNext == MixedCheck

SpecMixed == MixedInit /\ [][MixedNext]_vars

\* C16: check_collision(C, P) reports a collision iff check_collision(P, C) does, with
\* the same penetration and collision points and with the negated normal; the normal of
\* the order (P, C) is the outward normal of a line of P through the collision point, so
\* it points away from P, and the normal of the order (C, P) points into P, away from C.
C16_SwappedOrderNegatesNormal ==
    poly.called =>
        /\ poly.forward.some <=> poly.swapped.some
        /\ poly.forward.some =>
               /\ poly.swapped.val.penetration = poly.forward.val.penetration
               /\ poly.swapped.val.collision_points = poly.forward.val.collision_points
               /\ poly.swapped.val.normal = VMul(poly.forward.val.normal, I(-1))
               /\ poly.swapped.val.normal # poly.forward.val.normal
               /\ \E n \in 1..Len(global_lines(poly.polygon)) :
                      /\ closest_point(global_lines(poly.polygon)[n],
                                       poly.forward.val.collision_points[1]) =
                             poly.forward.val.collision_points[1]
                      /\ poly.forward.val.normal =
                             lines_normal_pointing_outside(poly.polygon,
                                                           global_lines(poly.polygon)[n])

\* A circle overlaps the triangle at a vertex, centre outside, and both orders have
\* reported it.
C16_Witness ==
    /\ poly.called
    /\ poly.forward.some /\ poly.swapped.some
    /\ poly.polygon.points = <<VI(-1, -1), VI(2, -1), VI(-1, 3)>>
    /\ RGt(poly.forward.val.penetration, I(0))
    /\ poly.forward.val.collision_points[1] \in {VI(2, -1), VI(-1, 3), VI(-1, -1)}
    /\ poly.forward.val.collision_points[1] # poly.circle.state.position

(***************************************************************************)
(* Claims about the passes and phases of RbSimulator::step.                *)
(***************************************************************************)
\* C17: when the resolution loop of a step is over, resolve_collisions has run exactly
\* config.rb_config.iterations times.
C17_ExactlyConfiguredPasses ==
    rbrun.last \in {"move", "refresh"} => rbrun.pass = game_config.rb_config.iterations

\* What the model keeps of C17: the number of passes is the configured count capped at 1.
C17_AtMostOnePass ==
    rbrun.last \in {"move", "refresh"} =>
        rbrun.pass = Min(game_config.rb_config.iterations, 1)

(***************************************************************************)
(* Specification of Sph::step, statement by statement, on one or two       *)
(* particles on the line x = 30 and no bodies. The lookup of the 72 x 72   *)
(* world has 3 x 3 cells of side 24. `game` keeps the position in the step *)
(* and the number of the step.                                             *)
(***************************************************************************)
FluidVelocities == {VI(0, 0), VI(0, 1), VI(0, -1)}

FluidParticles ==
    {Particle_new_with_velocity(VI(30, y), velocity) : y \in {23, 40, 57},
                                                      velocity \in FluidVelocities}

FluidLists ==
    {<<p>> : p \in FluidParticles}
        \cup {<<p, q>> \in FluidParticles \X FluidParticles : p.position # q.position}

FluidConfig ==
    [GameWorld.game_config EXCEPT
        !.time_step = BoxStep, !.sub_steps = 1,
        !.sph_config = [base_pressure |-> I(1), base_body_force |-> I(1), gravity |-> zero]]

FluidInit ==
    /\ \E particles \in FluidLists :
           fluid_system = AddParticles(GameWorld.fluid_system, particles, zero)
    /\ rb_bodies = <<>>
    /\ game_config = FluidConfig
    /\ game = [pc |-> "setup_lookup", k |-> 0, unit |-> zero]
    /\ rb_collisions = <<>>
    /\ rb_simulator = <<>>
    /\ rbrun = NoRun
    /\ IdleExcept({"rb", "game"})

FluidSetupLookup ==
    /\ game.pc = "setup_lookup"
    /\ game.k < MaxSteps
    /\ fluid_system' = setup_lookup(fluid_system)
    /\ game' = [game EXCEPT !.pc = "configure"]
    /\ UNCHANGED <<rbVars, notGame>>

FluidConfigure ==
    /\ game.pc = "configure"
    /\ fluid_system' = ConfigureFrom(fluid_system, game_config)
    /\ game' = [game EXCEPT !.pc = "predict"]
    /\ UNCHANGED <<rbVars, notGame>>

FluidPredict ==
    /\ game.pc = "predict"
    /\ fluid_system' = PredictPositions(fluid_system, BoxStep)
    /\ game' = [game EXCEPT !.pc = "gravity"]
    /\ UNCHANGED <<rbVars, notGame>>

FluidGravity ==
    /\ game.pc = "gravity"
    /\ fluid_system' = add_gravity_force(fluid_system)
    /\ game' = [game EXCEPT !.pc = "densities"]
    /\ UNCHANGED <<rbVars, notGame>>

FluidDensities ==
    /\ game.pc = "densities"
    /\ fluid_system' = calculate_densities(fluid_system)
    /\ game' = [game EXCEPT !.pc = "pressures"]
    /\ UNCHANGED <<rbVars, notGame>>

FluidPressures ==
    /\ game.pc = "pressures"
    /\ \E unit \in UnitChoices :
           /\ fluid_system' = apply_pressures(fluid_system, unit)
           /\ game' = [game EXCEPT !.pc = "move", !.unit = unit]
    /\ UNCHANGED <<rbVars, notGame>>

FluidMove ==
    /\ game.pc = "move"
    /\ fluid_system' = MoveParticles(fluid_system, BoxStep)
    /\ game' = [game EXCEPT !.pc = "resolve"]
    /\ UNCHANGED <<rbVars, notGame>>

FluidResolve ==
    /\ game.pc = "resolve"
    /\ fluid_system' = Sph_resolve_collisions(fluid_system, rb_bodies, BoxStep).sph
    /\ game' = [game EXCEPT !.pc = "setup_lookup", !.k = game.k + 1]
    /\ UNCHANGED <<rbVars, notGame>>

FluidNext ==
    \/ FluidSetupLookup
    \/ FluidConfigure
    \/ FluidPredict
    \/ FluidGravity
    \/ FluidDensities
    \/ FluidPressures
    \/ FluidMove
    \/ FluidResolve

SpecFluid == FluidInit /\ [][FluidNext]_vars

\* How often the item occurs in the cells of the lookup.
OccurrencesOf(lk, item) ==
    Cardinality({t \in (1..Len(lk.cells)) \X (1..Len(lk.cells[1])) \X (1..MaxParticles) :
                    /\ t[3] <= Len(lk.cells[t[1]][t[2]])
                    /\ lk.cells[t[1]][t[2]][t[3]] = item})

\* How often the item occurs in the cell (row, col).
CountIn(lk, row, col, item) ==
    Cardinality({k \in 1..Len(lk.cells[row + 1][col + 1]) :
                    lk.cells[row + 1][col + 1][k] = item})

\* The index of particle i is stored once in the lookup, in the cell of its predicted
\* position.
StoredAtPredicted(self, i) ==
    LET t == InsertTarget(self.lookup, self.particles[i].predicted_position)
    IN /\ t.some
       /\ OccurrencesOf(self.lookup, i - 1) = 1
       /\ CountIn(self.lookup, t.val[1], t.val[2], i - 1) = 1

\* C18: when the densities and the pressure forces of a step are about to be computed,
\* the index of every particle whose predicted_position is in bounds is stored exactly
\* once in the lookup, in the cell that holds the predicted_position of this step.
C18_LookupHoldsThisStepsPrediction ==
    game.pc \in {"densities", "pressures"} =>
        \A i \in 1..Len(fluid_system.particles) :
            ~OutOfBounds(fluid_system.lookup, fluid_system.particles[i].predicted_position)
                => StoredAtPredicted(fluid_system, i)

\* What the model keeps of C18: every index is stored exactly once, in the cell of the
\* predicted position the particle had when the step was entered.
C18_LookupHoldsEarlierPrediction ==
    game.pc \in {"configure", "predict"} =>
        \A i \in 1..Len(fluid_system.particles) :
            ~OutOfBounds(fluid_system.lookup, fluid_system.particles[i].predicted_position)
                => StoredAtPredicted(fluid_system, i)

\* The cached world points of every polygon are those of its position and orientation.
CachesMatch(bodies) ==
    \A i \in 1..Len(bodies) :
        bodies[i].kind = "Polygon" =>
            bodies[i].global_points =
                [k \in 1..Len(bodies[i].points) |->
                    local_point_to_global(bodies[i], bodies[i].points[k])]

StatesOf(bodies) == [i \in 1..Len(bodies) |-> bodies[i].state]

PlacesOf(bodies) ==
    [i \in 1..Len(bodies) |-> <<bodies[i].state.position, bodies[i].state.orientation>>]

\* C19: the phases of one RbSimulator::step follow each other in the order gravity,
\* detection, resolution passes, integration of positions and orientations, refresh of
\* the cached geometry. Gravity changes the velocity of Dynamic bodies only and moves
\* nothing; detection runs once and changes no body; every resolution pass works on the
\* collision set detection left and moves nothing; the integration follows the last pass
\* and changes positions and orientations from the velocities; the refresh ends the step
\* and leaves every polygon's cached world points matching its position and orientation.
C19_PhaseOrder ==
    [][/\ rbrun'.pc = "gravity" => rbrun.pc = "start"
       /\ (rbrun' # NoRun /\ rbrun # NoRun /\ rbrun'.last # rbrun.last) =>
           /\ rbrun'.last = "gravity" =>
                  /\ rbrun.last = "begin"
                  /\ PlacesOf(rb_bodies') = PlacesOf(rb_bodies)
                  /\ \A i \in 1..Len(rb_bodies) :
                         rb_bodies[i].state.behaviour # "Dynamic" =>
                             rb_bodies'[i] = rb_bodies[i]
                  /\ \A i \in 1..Len(rb_bodies) :
                         rb_bodies[i].state.behaviour = "Dynamic" =>
                             rb_bodies'[i].state.velocity =
                                 runge_kutta_v(rb_bodies[i].state.velocity,
                                               game_config.time_step, rb_simulator.gravity)
           /\ rbrun'.last = "detect" =>
                  /\ rbrun.last = "gravity"
                  /\ rb_bodies' = rb_bodies
                  /\ rb_collisions' = check_collisions(rb_bodies)
           /\ rbrun'.last = "resolve" => rbrun.last = "detect"
           /\ rbrun'.last = "move" => rbrun.last \in {"detect", "resolve"}
           /\ rbrun'.last = "refresh" => rbrun.last = "move"
       /\ (rbrun' # NoRun /\ rbrun # NoRun) =>
           /\ rbrun'.last = "resolve" =>
                  /\ rbrun.last \in {"detect", "resolve"}
                  /\ rb_collisions' = rb_collisions
                  /\ PlacesOf(rb_bodies') = PlacesOf(rb_bodies)
           /\ (rbrun'.last = "move" /\ rbrun.last # "move") =>
                  /\ rbrun.pass = rb_simulator.iterations
                  /\ rb_collisions' = rb_collisions
                  /\ StatesOf(rb_bodies') =
                         StatesOf(move_bodies_by_velocity(rb_bodies, game_config.time_step))
           /\ (rbrun'.last = "refresh" /\ rbrun.last # "refresh") =>
                  /\ rbrun'.pc = "done"
                  /\ StatesOf(rb_bodies') = StatesOf(rb_bodies)
                  /\ CachesMatch(rb_bodies')
      ]_vars

\* A step has ended on a dynamic polygon that moved: its cached world points were stale
\* after the integration and the refresh has replaced them.
C19_Witness ==
    /\ rbrun.last = "refresh"
    /\ rbrun.pass = 1
    /\ Len(rb_collisions) = 1
    /\ \E i \in 1..Len(rb_bodies) :
           /\ rb_bodies[i].kind = "Polygon"
           /\ rb_bodies[i].state.behaviour = "Dynamic"
           /\ rb_bodies[i].global_points # rbrun.prev[i].global_points

(***************************************************************************)
(* Specification of the friction limit: one RbSimulator::step over a       *)
(* static floor and a dynamic body that slides, for static_friction values *)
(* of either sign (the field is a plain f32 that a saved game can set).    *)
(***************************************************************************)
StaticFrictions == {Value(I(-2)), Value(I(-1)), Value(I(0)), Value(I(1))}

SlidingVelocities == {VI(3, 1), VI(1, 3), VI(-3, 2)}

Sliding(body, m, velocity, friction) ==
    [Inelastic(body, m, velocity) EXCEPT !.state.static_friction = friction]

FrictionScenes ==
    {<<st, Sliding(d, m, v, f)>> :
         st \in {Floor, PassingShared(Floor)}, d \in Landing, m \in RbMasses,
         v \in SlidingVelocities, f \in StaticFrictions}

FrictionInit ==
    /\ \E s \in FrictionScenes : rb_bodies \in {s, <<s[2], s[1]>>}
    /\ rb_collisions = <<>>
    /\ rb_simulator = RbSimulator_new(VI(0, 981))
    /\ \E n \in 0..MaxIterations :
           game_config = [time_step |-> I(2), sub_steps |-> 1, gravity |-> VI(0, 10),
                          rb_config |-> [elasticity_selection |-> "Min",
                                         friction_selection |-> "Average",
                                         iterations |-> n]]
    /\ rbrun = [pc |-> "start", dt |-> I(2), pass |-> 0, last |-> "none", prev |-> <<>>]
    /\ IdleExcept({"rb"})

SpecFriction == FrictionInit /\ [][RbNext]_vars

\* The values of a collision with the friction threshold set to `threshold`.
WithThreshold(coll, threshold) ==
    [CollisionValues(rb_simulator, rbrun.prev[coll.index_a + 1],
                     rbrun.prev[coll.index_b + 1], coll)
        EXCEPT !.shared_static_friction = threshold]

combined_static_friction(coll) ==
    select(rb_simulator.friction_selection,
           rbrun.prev[coll.index_a + 1].state.static_friction,
           rbrun.prev[coll.index_b + 1].state.static_friction)

C20_ThresholdIsZero ==
    (rbrun.last = "resolve" /\ Len(rb_collisions) = 1) =>
        rb_bodies =
            ResolvePoints(rbrun.prev, WithThreshold(rb_collisions[1], I(0)),
                          rb_collisions[1].collision_data.collision_points)

\* With static_friction values that are not negative the two thresholds give the same
\* bodies: impulse_normal is never positive, so neither threshold is.
C20_SameForNonNegativeFriction ==
    (/\ rbrun.last = "resolve"
     /\ Len(rb_collisions) = 1
     /\ RGe(combined_static_friction(rb_collisions[1]), I(0))) =>
        rb_bodies =
            ResolvePoints(rbrun.prev,
                          WithThreshold(rb_collisions[1],
                                        combined_static_friction(rb_collisions[1])),
                          rb_collisions[1].collision_data.collision_points)

(***************************************************************************)
(* Collision points of the narrow-phase checks                             *)
(***************************************************************************)
\* C21: every BodyCollisionData that polygon_polygon_collision returns holds one or two
\* collision points, never none, so that the weight 1 / collision_points.len() is finite
\* and the loop over the points resolves the collision.
C21_OneOrTwoCollisionPoints ==
    (poly # <<>> /\ poly.called /\ poly.result.some) =>
        Len(poly.result.val.collision_points) \in {1, 2}

\* The part of C21 that the model keeps: at most two collision points.
C21_AtMostTwoCollisionPoints ==
    (poly # <<>> /\ poly.called /\ poly.result.some) =>
        Len(poly.result.val.collision_points) <= 2

(***************************************************************************)
(* The body forces that Sph::step returns.                                 *)
(***************************************************************************)
\* The particles as the turn of the loop for the body at `index` finds them: the bodies
\* before it have pushed the particles they contained to their surfaces.
ParticlesSeenBy(moved, bodies, dt, index) ==
    ResolveAgainstBodies(moved, SubSeq(bodies, 1, index), dt, 0, <<>>).sph.particles

Penetrated(moved, bodies, dt, index) ==
    \E seen \in {ParticlesSeenBy(moved, bodies, dt, index)} :
        \E i \in 1..Len(seen) : contains_point(bodies[index + 1], seen[i].position)

ReturnedForcesOk(moved, bodies, dt, body_forces) ==
    /\ Len(body_forces) = Len(bodies)
    /\ \A k \in 1..Len(body_forces) :
           /\ body_forces[k].index = k - 1
           /\ (\/ bodies[k].state.behaviour = "Static"
               \/ ~Penetrated(moved, bodies, dt, k - 1)) =>
                  body_forces[k].force_accumulation = BodyForceAccumulation_empty

\* C22: Sph::step returns one (index, accumulation) entry per body, in the order of the
\* body list with index = position in the list; the entry of a Static body and the entry
\* of a body that no particle penetrated hold zero force and zero torque.
C22_OneEntryPerBody ==
    (game # <<>> /\ game.fluid_saw # <<>>) =>
        ReturnedForcesOk(game.moved, game.fluid_saw, game.dt, game.returned)

\* A fluid step over the four walls and the ball has returned five entries; a particle
\* had entered the ball, whose entry holds a force, and the walls' entries hold none.
C22_Witness ==
    /\ game # <<>> /\ game.returned # <<>>
    /\ Len(game.returned) = 5 /\ Len(game.fluid_saw) = 5
    /\ game.fluid_saw[5].state.behaviour = "Dynamic"
    /\ game.returned[5].force_accumulation.force # zero
    /\ \A k \in 1..4 : /\ game.fluid_saw[k].state.behaviour = "Static"
                       /\ game.returned[k].force_accumulation = BodyForceAccumulation_empty

(***************************************************************************)
(* Specification of the application of accumulated forces: one call of     *)
(* BodyState::apply_accumulated_forces or of                               *)
(* Particle::apply_accumulated_force on a drawn accumulation.              *)
(***************************************************************************)
\* Components of the accumulated forces: large, zero, and small enough that the squared
\* length of the force stays below the threshold 0.001 of the particle.
ForceParts == {I(-1), <<-1, 100>>, I(0), <<1, 100>>, I(3)}

AccumulatedForces == {V(x, y) : x \in ForceParts, y \in ForceParts}

AccumulatedTorques == {I(0), <<1, 100>>, I(-2)}

AccumulateStep == I(2)

AccumulateInit ==
    /\ \/ \E force \in AccumulatedForces, velocity \in {zero, VI(1, 0)} :
              game = [kind |-> "particle", applied |-> FALSE,
                      before |-> Particle_add_force(
                                     Particle_new_with_velocity(VI(30, 30), velocity), force),
                      after |-> <<>>]
       \/ \E force \in AccumulatedForces, torque \in AccumulatedTorques,
             behaviour \in {"Dynamic", "Static"} :
              game = [kind |-> "body", applied |-> FALSE,
                      before |-> add_force_accumulation(
                                     new_circle(VI(30, 30), I(2), behaviour).state,
                                     [force |-> force, torque |-> torque]),
                      after |-> <<>>]
    /\ fluid_system = <<>>
    /\ IdleExcept({"game"})

AccumulateApplyParticle ==
    /\ game.kind = "particle" /\ ~game.applied
    /\ game' = [game EXCEPT !.applied = TRUE,
                            !.after = Particle_apply_accumulated_force(game.before,
                                                                       AccumulateStep)]
    /\ UNCHANGED <<fluid_system, rbVars, notGame>>

AccumulateApplyBody ==
    /\ game.kind = "body" /\ ~game.applied
    /\ game' = [game EXCEPT !.applied = TRUE,
                            !.after = apply_accumulated_forces(game.before, AccumulateStep)]
    /\ UNCHANGED <<fluid_system, rbVars, notGame>>

AccumulateNext == AccumulateApplyParticle \/ AccumulateApplyBody

SpecAccumulate == AccumulateInit /\ [][AccumulateNext]_vars

\* C23: after apply_accumulated_forces the accumulated force and torque of the body are
\* zero, and after apply_accumulated_force the accumulated force of the particle is
\* zero, whatever had been accumulated (also a force below the negligible-force
\* threshold).
C23_AccumulatorsResetAfterApply ==
    game.applied =>
        /\ game.after.accumulated_force = zero
        /\ game.kind = "body" => game.after.accumulated_torque = I(0)

\* The part of C23 that the model keeps: the body's accumulators are always zero after
\* the call; the particle's force is zero after the call iff its squared length was not
\* below 0.001 or it was zero already, and is left as it was otherwise.
C23_ParticleKeepsNegligibleForce ==
    game.applied =>
        /\ game.kind = "body" =>
               /\ game.after.accumulated_force = zero
               /\ game.after.accumulated_torque = I(0)
        /\ game.kind = "particle" =>
               game.after.accumulated_force =
                   IF RLt(length_squared(game.before.accumulated_force), ForceThreshold)
                   THEN game.before.accumulated_force
                   ELSE zero

(***************************************************************************)
(* Pairs of Static bodies in check_collisions and resolve_collisions.      *)
(***************************************************************************)
BothStatic(bodies, index_a, index_b) ==
    /\ bodies[index_a + 1].state.behaviour # "Dynamic"
    /\ bodies[index_b + 1].state.behaviour # "Dynamic"

\* The record check_collisions would build for the pair if it did not skip it.
RecordOf(bodies, index_a, index_b) ==
    [index_a |-> index_a, index_b |-> index_b,
     collision_data |-> check_collision(bodies[index_a + 1], bodies[index_b + 1]).val]

\* The pairs of Static bodies that overlap.
OverlappingStatics(bodies) ==
    {pair \in (0..(Len(bodies) - 1)) \X (0..(Len(bodies) - 1)) :
        /\ pair[1] > pair[2]
        /\ BothStatic(bodies, pair[1], pair[2])
        /\ check_collision(bodies[pair[1] + 1], bodies[pair[2] + 1]).some}

\* C24: check_collisions returns no record whose two bodies are both Static, and
\* resolve_collisions leaves every body as it is for a pair in which neither body is
\* Dynamic.
C24_StaticPairsSkipped ==
    (rbrun # NoRun /\ rbrun.last = "detect") =>
        /\ \A k \in 1..Len(rb_collisions) :
               ~BothStatic(rb_bodies, rb_collisions[k].index_a, rb_collisions[k].index_b)
        /\ \A pair \in OverlappingStatics(rb_bodies) :
               resolve_collisions(rb_simulator, rb_bodies,
                                  <<RecordOf(rb_bodies, pair[1], pair[2])>>) = rb_bodies

\* check_collisions has run over bodies of which two Static ones overlap, and has
\* returned a collision (of the ball) but none of those two.
C24_Witness ==
    /\ rbrun # NoRun /\ rbrun.last = "detect"
    /\ OverlappingStatics(rb_bodies) # {}
    /\ rb_collisions # <<>>
    /\ \A k \in 1..Len(rb_collisions) :
           <<rb_collisions[k].index_a, rb_collisions[k].index_b>>
               \notin OverlappingStatics(rb_bodies)

(***************************************************************************)
(* Directions obtained by normalizing a vector that can be zero.           *)
(***************************************************************************)
\* C25: the collision normal that circle_circle_collision reports is never NaN and has
\* unit length, also for coincident centres, where a fallback direction is substituted.
C25_CircleNormalIsUnit ==
    (circ # <<>> /\ circ.called /\ circ.result.some) =>
        /\ circ.result.val.normal.x # NaN
        /\ circ.result.val.normal.y # NaN
        /\ length_squared(circ.result.val.normal) = I(1)

\* The part of C25 that the model keeps for circle_circle_collision: the normal is a unit
\* vector whenever the centres differ, and is (NaN, NaN) when they coincide.
C25_CircleNormalIsUnitUnlessCoincident ==
    (circ # <<>> /\ circ.called /\ circ.result.some) =>
        IF circ.this.state.position = circ.other.state.position
        THEN circ.result.val.normal = [x |-> NaN, y |-> NaN]
        ELSE length_squared(circ.result.val.normal) = I(1)

(***************************************************************************)
(* Specification of the frames of Game::update under mouse input with the  *)
(* Rigidbody tool: handle_input, physics_update, the UI events. The        *)
(* simulation is kept paused (Space is pressed in the frame after          *)
(* Game::new and after every load), so physics_update only refreshes the   *)
(* info panel. `game` holds dragged_body, the info panel's                 *)
(* under_mouse_entity, preview_body, the level of the left button, the     *)
(* last index the frame's handle_input used on the body list with the      *)
(* length of the list at that moment, and whether that use panicked.       *)
(***************************************************************************)
MaxSpawned == 2

\* A point inside the box of the walls and a point on the left wall.
InputPositions == {VI(30, 30), VI(5, 36)}

\* The body maker as the user has set it: 8 x 8 bodies of mass 5000.
BodyMakers ==
    {[size |-> VI(8, 8), mass |-> I(5000), behaviour |-> b] : b \in {"Dynamic", "Static"}}

body_from_body_maker(body_maker, position) ==
    [Rectangle(position, body_maker.size.x, body_maker.size.y, body_maker.behaviour)
        EXCEPT !.state = [set_mass(@, body_maker.mass) EXCEPT
                             !.color = [Color_rgb(0, 0, 0) EXCEPT !.a = Half]]]

RigidBody_set_position(body, position) ==
    update_inner_values([body EXCEPT !.state.position = position])

Vector2_clamp(v, lo, hi) == [x |-> RClamp(v.x, lo.x, hi.x), y |-> RClamp(v.y, lo.y, hi.y)]

\* Vec::swap_remove on an index in range: the last element takes the place of the
\* removed one.
swap_remove(bodies, index) ==
    [i \in 1..(Len(bodies) - 1) |-> IF i = index + 1 THEN bodies[Len(bodies)] ELSE bodies[i]]

NoUse == [index |-> 0, len |-> 1, by |-> "none"]

\* handle_input, Tool::Rigidbody, statement by statement; `g` is the game record and
\* `bodies` the body list as the statement finds them.
ReleaseDragged(g, left_released) ==
    IF left_released /\ g.dragged_body.some THEN [g EXCEPT !.dragged_body = None] ELSE g

\* Mutant: any body under the mouse can be dragged, the walls too.
GrabBody_AnyIndex(g, position, left_down) ==
    IF /\ left_down /\ ~g.dragged_body.some
       /\ g.under_mouse_entity.kind = "Body"
    THEN [g EXCEPT !.dragged_body =
             Some([index |-> g.under_mouse_entity.index,
                   drag_offset |-> VSub(position, g.under_mouse_entity.position)])]
    ELSE g

GrabBody(g, position, left_down) ==
    IF /\ left_down /\ ~g.dragged_body.some
       /\ g.under_mouse_entity.kind = "Body"
       /\ g.under_mouse_entity.index >= 4
    THEN [g EXCEPT !.dragged_body =
             Some([index |-> g.under_mouse_entity.index,
                   drag_offset |-> VSub(position, g.under_mouse_entity.position)])]
    ELSE g

\* `self.rb_simulator.bodies[index]` of the dragged body: the use of the index.
DragUse(g, bodies) ==
    IF g.dragged_body.some
    THEN [g EXCEPT !.used = [index |-> g.dragged_body.val.index, len |-> Len(bodies),
                             by |-> "drag"],
                   !.panicked = g.dragged_body.val.index >= Len(bodies)]
    ELSE g

MoveDragged(g, bodies, position) ==
    IF ~g.dragged_body.some \/ g.dragged_body.val.index >= Len(bodies) THEN bodies
    ELSE IF bodies[g.dragged_body.val.index + 1].state.behaviour = "Dynamic"
    THEN [bodies EXCEPT ![g.dragged_body.val.index + 1].state.velocity =
             VMul(VSub(VSub(Vector2_clamp(position, zero, VI(72, 72)),
                            bodies[g.dragged_body.val.index + 1].state.position),
                       g.dragged_body.val.drag_offset),
                  I(10))]
    ELSE [bodies EXCEPT ![g.dragged_body.val.index + 1] =
             RigidBody_set_position(@,
                 VSub(Vector2_clamp(position, zero, VI(72, 72)),
                      g.dragged_body.val.drag_offset))]

\* The spawn with the right button: the preview body is pushed, a new preview is made.
SpawnBody(g, bodies, position) ==
    [g |-> [g EXCEPT !.preview_body = body_from_body_maker(g.body_maker, position)],
     bodies |-> Append(bodies, [g.preview_body EXCEPT !.state.color.a = I(1)])]

\* Mutant: the middle button deletes any body under the mouse, the walls too.
DeleteBody_AnyIndex(g, bodies) ==
    IF g.under_mouse_entity.kind = "Body"
    THEN [g |-> [g EXCEPT !.used = [index |-> g.under_mouse_entity.index,
                                   len |-> Len(bodies), by |-> "swap_remove"],
                          !.panicked = g.under_mouse_entity.index >= Len(bodies)],
          bodies |-> IF g.under_mouse_entity.index >= Len(bodies) THEN bodies
                     ELSE swap_remove(bodies, g.under_mouse_entity.index)]
    ELSE [g |-> g, bodies |-> bodies]

\* The delete with the middle button: swap_remove panics on an index out of range.
DeleteBody(g, bodies) ==
    IF g.under_mouse_entity.kind = "Body" /\ g.under_mouse_entity.index >= 4
    THEN [g |-> [g EXCEPT !.used = [index |-> g.under_mouse_entity.index,
                                   len |-> Len(bodies), by |-> "swap_remove"],
                          !.panicked = g.under_mouse_entity.index >= Len(bodies)],
          bodies |-> IF g.under_mouse_entity.index >= Len(bodies) THEN bodies
                     ELSE swap_remove(bodies, g.under_mouse_entity.index)]
    ELSE [g |-> g, bodies |-> bodies]

SpawnOrDelete(g, bodies, position, right_pressed, middle_pressed) ==
    IF g.panicked THEN [g |-> g, bodies |-> bodies]
    ELSE IF right_pressed THEN SpawnBody(g, bodies, position)
    ELSE IF middle_pressed THEN DeleteBody(g, bodies)
    ELSE [g |-> [g EXCEPT !.preview_body = RigidBody_set_position(@, position)],
          bodies |-> bodies]

Dragging(g, bodies, position, right_pressed, middle_pressed) ==
    SpawnOrDelete(DragUse(g, bodies), MoveDragged(g, bodies, position), position,
                  right_pressed, middle_pressed)

handle_input(g, bodies, position, left_down, right_pressed, middle_pressed) ==
    Dragging(GrabBody(ReleaseDragged([g EXCEPT !.left_down = left_down, !.used = NoUse],
                                     g.left_down /\ ~left_down),
                      position, left_down),
             bodies, position, right_pressed, middle_pressed)

\* The saved games that can be loaded: the walls alone, and the walls with one body.
SavedGames ==
    {GameWorld.bodies,
     Append(GameWorld.bodies, Rectangle(VI(30, 30), I(8), I(8), "Dynamic"))}

InputInit ==
    /\ rb_bodies = GameWorld.bodies
    /\ fluid_system = GameWorld.fluid_system
    /\ \E body_maker \in BodyMakers :
           game = [pc |-> "input", is_simulating |-> TRUE, dragged_body |-> None,
                   under_mouse_entity |-> InfoPanel_default.under_mouse_entity,
                   body_maker |-> body_maker,
                   preview_body |-> body_from_body_maker(body_maker, VI(50, 50)),
                   left_down |-> FALSE, mouse |-> zero, used |-> NoUse,
                   panicked |-> FALSE, spawned |-> 0]
    /\ rb_collisions = <<>>
    /\ rb_simulator = <<>>
    /\ game_config = <<>>
    /\ rbrun = NoRun
    /\ IdleExcept({"rb", "game"})

\* Game::update: handle_input. Space is pressed exactly when the simulation runs.
InputHandleInput ==
    /\ game.pc = "input" /\ ~game.panicked
    /\ \E position \in InputPositions, left_down \in BOOLEAN,
          button \in {"none", "right", "middle"} :
          /\ button = "right" => game.spawned < MaxSpawned
          /\ \E r \in {handle_input(game, rb_bodies, position, left_down,
                                    button = "right", button = "middle")} :
                /\ rb_bodies' = r.bodies
                /\ game' = [r.g EXCEPT
                               !.pc = "physics", !.mouse = position,
                               !.is_simulating = FALSE,
                               !.spawned = IF button = "right" /\ ~r.g.panicked
                                           THEN @ + 1 ELSE @]
    /\ UNCHANGED <<fluid_system, rb_collisions, rb_simulator, game_config, rbrun, notGame>>

\* Game::update: physics_update while paused.
InputPhysicsUpdate ==
    /\ game.pc = "physics" /\ ~game.panicked
    /\ game' = [game EXCEPT
                   !.pc = "ui",
                   !.under_mouse_entity =
                       under_mouse_entity(rb_bodies, fluid_system, game.mouse)]
    /\ UNCHANGED <<rb_bodies, fluid_system, rb_collisions, rb_simulator, game_config, rbrun,
                   notGame>>

\* Game::update: no UI event in this frame.
InputNoEvent ==
    /\ game.pc = "ui"
    /\ game' = [game EXCEPT !.pc = "input"]
    /\ UNCHANGED <<rb_bodies, fluid_system, rb_collisions, rb_simulator, game_config, rbrun,
                   notGame>>

\* Game::update: a load or a restart, `*self = self.prepared_load_game(...)`. The new
\* game keeps ingame_ui (with the info panel) and preview_body of the old one.
InputLoadGame ==
    /\ game.pc = "ui"
    /\ \E saved \in SavedGames :
          /\ rb_bodies' = saved
          /\ game' = [game EXCEPT !.pc = "input", !.is_simulating = TRUE,
                                  !.dragged_body = None, !.spawned = Len(saved) - 4]
    /\ UNCHANGED <<fluid_system, rb_collisions, rb_simulator, game_config, rbrun, notGame>>

InputNext ==
    \/ InputHandleInput
    \/ InputPhysicsUpdate
    \/ InputNoEvent
    \/ InputLoadGame

SpecInput == InputInit /\ [][InputNext]_vars

\* C26: every body index that handle_input takes from dragged_body or from the info
\* panel's under_mouse_entity is smaller than bodies.len() when it is used to index or
\* swap_remove the body list, over any frames of drag, spawn, delete and load inputs.
C26_UsedIndexInRange ==
    (game # <<>> /\ game.used.by # "none") => game.used.index < game.used.len

\* The part of C26 that the model keeps: an index is out of range only when it is the
\* dragged body's after a delete shortened the list, or the info panel's after a load.
C26_OutOfRangeAfterDeleteOrLoad ==
    (game # <<>> /\ game.used.by # "none" /\ game.used.index >= game.used.len) =>
        /\ game.used.index >= 4
        /\ game.used.by = "drag" => game.left_down

\* C29: under spawn, drag and delete inputs the body list keeps at least four bodies and
\* its first four are the unchanged Static walls of Game::new; drag and delete only use
\* an index >= 4.
C29_WallsStayFirst ==
    game # <<>> =>
        /\ Len(rb_bodies) >= 4
        /\ \A i \in 1..4 : rb_bodies[i] = GameWorld.bodies[i]
        /\ game.used.by # "none" => game.used.index >= 4

\* The body at index 4 of six bodies has been deleted with the middle button: the last
\* body took its place, five bodies are left.
C29_Witness ==
    /\ game # <<>> /\ game.pc = "physics" /\ ~game.panicked
    /\ game.used = [index |-> 4, len |-> 6, by |-> "swap_remove"]
    /\ Len(rb_bodies) = 5

(***************************************************************************)
(* The pairs that check_collisions tests.                                  *)
(***************************************************************************)
\* The index pairs of n bodies: every pair (i, j) with j < i < n once, none else.
PairsOnce(n) ==
    /\ Len(IndexPairs(n, 1, 0)) = (n * (n - 1)) \div 2
    /\ \A k \in 1..Len(IndexPairs(n, 1, 0)) :
           /\ IndexPairs(n, 1, 0)[k][2] < IndexPairs(n, 1, 0)[k][1]
           /\ IndexPairs(n, 1, 0)[k][1] < n
           /\ \A l \in 1..Len(IndexPairs(n, 1, 0)) :
                  IndexPairs(n, 1, 0)[k] = IndexPairs(n, 1, 0)[l] => k = l

RecordsOf(collisions, index_a, index_b) ==
    {k \in 1..Len(collisions) :
        collisions[k].index_a = index_a /\ collisions[k].index_b = index_b}

\* C27: check_collisions takes every unordered pair of distinct bodies once, as
\* (index_a, index_b) with index_a > index_b, never a body with itself, and returns at
\* most one record per pair (one iff the pair is not of two Static bodies and collides);
\* for fewer than two bodies it returns no record.
C27_EachPairOnce ==
    (rbrun # NoRun /\ rbrun.last = "detect") =>
        /\ PairsOnce(Len(rb_bodies)) /\ PairsOnce(0) /\ PairsOnce(1)
        /\ check_collisions(<<>>) = <<>>
        /\ check_collisions(<<rb_bodies[1]>>) = <<>>
        /\ \A k \in 1..Len(rb_collisions) :
               /\ rb_collisions[k].index_b < rb_collisions[k].index_a
               /\ rb_collisions[k].index_a < Len(rb_bodies)
        /\ \A i \in 0..(Len(rb_bodies) - 1), j \in 0..(Len(rb_bodies) - 1) :
               Cardinality(RecordsOf(rb_collisions, i, j)) =
                   IF /\ j < i
                      /\ ~(/\ rb_bodies[i + 1].state.behaviour = "Static"
                           /\ rb_bodies[j + 1].state.behaviour = "Static")
                      /\ check_collision(rb_bodies[i + 1], rb_bodies[j + 1]).some
                   THEN 1 ELSE 0

\* check_collisions has run over three bodies and has returned the records of two of
\* the three pairs.
C27_Witness ==
    /\ rbrun # NoRun /\ rbrun.last = "detect"
    /\ Len(rb_bodies) = 3
    /\ Len(rb_collisions) = 2
    /\ <<rb_collisions[1].index_a, rb_collisions[1].index_b>> = <<1, 0>>
    /\ <<rb_collisions[2].index_a, rb_collisions[2].index_b>> = <<2, 1>>

(***************************************************************************)
(* Specification of setup_lookup over two particles, for the pairs that    *)
(* the density and pressure sums reach through the grid.                   *)
(***************************************************************************)
\* The extents of the fluid system: a multiple of the cell size (24) and one that
\* leaves a remainder, as the 500 of main does.
NeighborExtents == {I(72), I(60)}

NeighborPositions == {VI(x, y) : x \in {0, 6, 18, 24, 30, 48, 54, 60, 66, 72}, y \in {0, 30, 60}}

NeighborsInit ==
    /\ \E extent \in NeighborExtents, p \in NeighborPositions, q \in NeighborPositions :
           fluid_system = AddParticles(Sph_new(extent, extent),
                                       <<Particle_new_with_velocity(p, zero),
                                         Particle_new_with_velocity(q, zero)>>, zero)
    /\ game = [pc |-> "setup_lookup"]
    /\ IdleExcept({"game"})

NeighborsSetupLookup ==
    /\ game.pc = "setup_lookup"
    /\ fluid_system' = setup_lookup(fluid_system)
    /\ game' = [game EXCEPT !.pc = "densities"]
    /\ UNCHANGED <<rbVars, notGame>>

NeighborsNext == NeighborsSetupLookup

SpecNeighbors == NeighborsInit /\ [][NeighborsNext]_vars

\* The indices that a loop over get_immediate_neighbors(position) visits.
VisitedFrom(lk, position) ==
    {index \in 0..(MaxParticles - 1) :
        \E k \in 1..Len(NeighborCells(lk, position, lk.cell_size)) :
            \E n \in 1..Len(lk.cells[NeighborCells(lk, position, lk.cell_size)[k][1] + 1]
                                    [NeighborCells(lk, position, lk.cell_size)[k][2] + 1]) :
                lk.cells[NeighborCells(lk, position, lk.cell_size)[k][1] + 1]
                        [NeighborCells(lk, position, lk.cell_size)[k][2] + 1][n] = index}

\* Both predicted positions are in bounds and at most smoothing_radius apart.
WithinKernelRange(self, a, b) ==
    /\ ~OutOfBounds(self.lookup, self.particles[a + 1].predicted_position)
    /\ ~OutOfBounds(self.lookup, self.particles[b + 1].predicted_position)
    /\ RLe(length_squared(VSub(self.particles[a + 1].predicted_position,
                               self.particles[b + 1].predicted_position)),
           RMul(self.smoothing_radius, self.smoothing_radius))

\* The predicted position lies on the far edge of a grid whose extent is a multiple of
\* the cell size: in bounds, but in no cell.
OnFarEdge(self, a) ==
    /\ ~OutOfBounds(self.lookup, self.particles[a + 1].predicted_position)
    /\ ~InsertTarget(self.lookup, self.particles[a + 1].predicted_position).some

\* C28: after setup_lookup, two particles whose predicted positions are in bounds and at
\* most smoothing_radius apart each find the other's index among the immediate neighbors
\* of their own predicted position.
C28_PairWithinRangeIsVisited ==
    game.pc = "densities" =>
        \A a \in 0..1, b \in 0..1 :
            (a # b /\ WithinKernelRange(fluid_system, a, b)) =>
                b \in VisitedFrom(fluid_system.lookup,
                                  fluid_system.particles[a + 1].predicted_position)

\* What holds: a particle in kernel range is visited unless its predicted position lies
\* on the far edge of a grid whose extent is a multiple of the cell size.
C28_VisitedUnlessOnFarEdge ==
    game.pc = "densities" =>
        \A a \in 0..1, b \in 0..1 :
            (a # b /\ WithinKernelRange(fluid_system, a, b)) =>
                (b \in VisitedFrom(fluid_system.lookup,
                                   fluid_system.particles[a + 1].predicted_position)
                    <=> ~OnFarEdge(fluid_system, b))

\* Two particles in kernel range in different cells are visited from each other.
C28_AcrossCells ==
    ~(/\ game.pc = "densities"
      /\ fluid_system.particles[1].predicted_position = VI(18, 30)
      /\ fluid_system.particles[2].predicted_position = VI(24, 30)
      /\ VisitedFrom(fluid_system.lookup, VI(18, 30)) = {0, 1}
      /\ VisitedFrom(fluid_system.lookup, VI(24, 30)) = {0, 1})

(***************************************************************************)
(* Specification of a SavesLoads value: the frames that call draw, the     *)
(* drop, and the thread of periodicly_check_save_files, over the RwLock    *)
(* of the shared list and the end_of_checks flag.                          *)
(***************************************************************************)
MaxRefreshes == 2

\* The entries of ./saves: name, whether it ends in ".json", whether it contains '_'.
SaveFiles ==
    {[stem |-> "save-1", json |-> TRUE, underscore |-> FALSE],
     [stem |-> "_demo", json |-> TRUE, underscore |-> TRUE],
     [stem |-> "notes", json |-> FALSE, underscore |-> FALSE]}

\* save_file_name with ".json" appended, as save_load::save creates it.
SavedFile == [stem |-> "save-1", json |-> TRUE, underscore |-> FALSE]

\* read_dir: the entries in some fixed order.
RECURSIVE list_saves(_)
list_saves(files) ==
    IF files = {} THEN <<>>
    ELSE <<CHOOSE f \in files : TRUE>> \o list_saves(files \ {CHOOSE f \in files : TRUE})

\* filter_map(strip_suffix(".json")) from the k-th entry on.
RECURSIVE StripJson(_, _)
StripJson(entries, k) ==
    IF k > Len(entries) THEN <<>>
    ELSE (IF entries[k].json THEN <<entries[k]>> ELSE <<>>) \o StripJson(entries, k + 1)

get_saves(files) == StripJson(list_saves(files), 1)

FreeLock == [readers |-> 0, writer |-> "none"]

\* RwLock::write returns once there is neither a reader nor a writer.
CanWrite(g) == g.lock.readers = 0 /\ g.lock.writer = "none"

\* RwLock::read returns once there is no writer.
CanRead(g) == g.lock.writer = "none"

SavesInit ==
    /\ \E files \in SUBSET SaveFiles :
           game = [files |-> files, saves |-> get_saves(files), lock |-> FreeLock,
                   end_of_checks_flag |-> FALSE,
                   checker |-> "load", checker_new_saves |-> <<>>,
                   draw |-> "idle", draw_new_saves |-> <<>>,
                   call_update_next_tick |-> FALSE, delete_save |-> None,
                   action |-> "Nothing", refreshed_after_drop |-> 0]
    /\ fluid_system = <<>>
    /\ IdleExcept({"game"})

\* Mutant: the loop never looks at the flag.
CheckerLoadFlag_Never ==
    /\ game.checker = "load"
    /\ game' = [game EXCEPT !.checker = "sleep"]
    /\ UNCHANGED <<fluid_system, rbVars, notGame>>

\* if end_of_checks.load(Relaxed) { return; }
CheckerLoadFlag ==
    /\ game.checker = "load"
    /\ game' = [game EXCEPT !.checker = IF game.end_of_checks_flag THEN "returned" ELSE "sleep"]
    /\ UNCHANGED <<fluid_system, rbVars, notGame>>

CheckerSleep ==
    /\ game.checker = "sleep"
    /\ game' = [game EXCEPT !.checker = "get_saves"]
    /\ UNCHANGED <<fluid_system, rbVars, notGame>>

\* update_saves_list: let new_saves = get_saves();
CheckerGetSaves ==
    /\ game.checker = "get_saves"
    /\ game' = [game EXCEPT !.checker = "write", !.checker_new_saves = get_saves(game.files)]
    /\ UNCHANGED <<fluid_system, rbVars, notGame>>

\* update_saves_list: let mut write = saves.write().unwrap();
CheckerWrite ==
    /\ game.checker = "write"
    /\ CanWrite(game)
    /\ game' = [game EXCEPT !.checker = "assign", !.lock.writer = "checker"]
    /\ UNCHANGED <<fluid_system, rbVars, notGame>>

\* update_saves_list: *write = new_saves; and the guard is dropped.
CheckerAssign ==
    /\ game.checker = "assign"
    /\ game' = [game EXCEPT !.checker = "load", !.saves = game.checker_new_saves,
                            !.lock.writer = "none",
                            !.refreshed_after_drop =
                                IF game.end_of_checks_flag /\ @ < MaxRefreshes THEN @ + 1 ELSE @]
    /\ UNCHANGED <<fluid_system, rbVars, notGame>>

CheckerNext ==
    \/ CheckerLoadFlag
    \/ CheckerSleep
    \/ CheckerGetSaves
    \/ CheckerWrite
    \/ CheckerAssign

\* draw, up to the Save button: the update of the list that an earlier frame asked for.
DrawBegin ==
    /\ game.draw = "idle"
    /\ game' = [game EXCEPT !.call_update_next_tick = FALSE,
                            !.draw = IF game.call_update_next_tick
                                     THEN "tick_get_saves" ELSE "save_button"]
    /\ UNCHANGED <<fluid_system, rbVars, notGame>>

DrawGetSaves ==
    /\ game.draw \in {"tick_get_saves", "delete_get_saves"}
    /\ game' = [game EXCEPT !.draw_new_saves = get_saves(game.files),
                            !.draw = IF game.draw = "tick_get_saves"
                                     THEN "tick_write" ELSE "delete_write"]
    /\ UNCHANGED <<fluid_system, rbVars, notGame>>

DrawWrite ==
    /\ game.draw \in {"tick_write", "delete_write"}
    /\ CanWrite(game)
    /\ game' = [game EXCEPT !.lock.writer = "draw",
                            !.draw = IF game.draw = "tick_write"
                                     THEN "tick_assign" ELSE "delete_assign"]
    /\ UNCHANGED <<fluid_system, rbVars, notGame>>

\* After the update at the top draw goes on to the buttons, after the one at the bottom
\* it sets the action and returns.
DrawAssign ==
    /\ game.draw \in {"tick_assign", "delete_assign"}
    /\ game' = [game EXCEPT !.saves = game.draw_new_saves, !.lock.writer = "none",
                            !.action = IF game.draw = "tick_assign" THEN @ ELSE "Nothing",
                            !.draw = IF game.draw = "tick_assign" THEN "save_button" ELSE "idle"]
    /\ UNCHANGED <<fluid_system, rbVars, notGame>>

\* The Save button: pressed, draw returns with the action Save, and handle_save_loads
\* writes the file; not pressed, draw goes on to the list.
DrawSaveButton ==
    /\ game.draw = "save_button"
    /\ \E pressed \in BOOLEAN :
           game' = IF pressed
                   THEN [game EXCEPT !.action = "Nothing", !.call_update_next_tick = TRUE,
                                     !.files = @ \cup {SavedFile}, !.draw = "idle"]
                   ELSE [game EXCEPT !.draw = "read"]
    /\ UNCHANGED <<fluid_system, rbVars, notGame>>

\* let read = self.saves.read().unwrap();
DrawRead ==
    /\ game.draw = "read"
    /\ CanRead(game)
    /\ game' = [game EXCEPT !.lock.readers = 1, !.draw = "list"]
    /\ UNCHANGED <<fluid_system, rbVars, notGame>>

\* The two loops over the list under the read guard: a load button returns with the
\* action Load, a Delete button of a save without '_' sets delete_save; the guard is
\* dropped at the return or at the end of the block.
DrawList ==
    /\ game.draw = "list"
    /\ \/ \E k \in 1..Len(game.saves) :
              game' = [game EXCEPT !.action = "Load", !.lock.readers = 0, !.draw = "loaded"]
       \/ \E k \in 1..Len(game.saves) :
              /\ ~game.saves[k].underscore
              /\ game' = [game EXCEPT !.delete_save = Some(game.saves[k]),
                                      !.lock.readers = 0, !.draw = "after_read"]
       \/ game' = [game EXCEPT !.delete_save = None, !.lock.readers = 0, !.draw = "after_read"]
    /\ UNCHANGED <<fluid_system, rbVars, notGame>>

\* Mutant: the deletion and its update of the list happen inside the block of the read guard.
DrawAfterRead_UnderReadGuard ==
    /\ game.draw = "after_read"
    /\ game' = IF game.delete_save.some
               THEN [game EXCEPT !.files = @ \ {game.delete_save.val},
                                 !.lock.readers = 1, !.draw = "delete_get_saves"]
               ELSE [game EXCEPT !.action = "Nothing", !.draw = "idle"]
    /\ UNCHANGED <<fluid_system, rbVars, notGame>>

\* if let Some(save_name) = delete_save { delete_save(..); update_saves_list(..) }
DrawAfterRead ==
    /\ game.draw = "after_read"
    /\ game' = IF game.delete_save.some
               THEN [game EXCEPT !.files = @ \ {game.delete_save.val},
                                 !.draw = "delete_get_saves"]
               ELSE [game EXCEPT !.action = "Nothing", !.draw = "idle"]
    /\ UNCHANGED <<fluid_system, rbVars, notGame>>

\* Drop for SavesLoads: between two frames, or when handle_save_loads replaces the game
\* (and its ingame_ui) after the action Load.
SavesDrop ==
    /\ game.draw \in {"idle", "loaded"}
    /\ game' = [game EXCEPT !.end_of_checks_flag = TRUE, !.draw = "dropped"]
    /\ UNCHANGED <<fluid_system, rbVars, notGame>>

SavesNext ==
    \/ CheckerNext
    \/ DrawBegin
    \/ DrawGetSaves
    \/ DrawWrite
    \/ DrawAssign
    \/ DrawSaveButton
    \/ DrawRead
    \/ DrawList
    \/ DrawAfterRead
    \/ SavesDrop

SpecSaves == SavesInit /\ [][SavesNext]_vars

\* The spawned thread keeps running: it is scheduled, its sleep ends, and write() returns
\* once the lock is free.
SpecSavesFair == SpecSaves /\ WF_vars(CheckerNext)

\* The thread waits in write() while the lock is held.
CheckerBlocked == game.checker = "write" /\ ~CanWrite(game)

\* draw waits in write() or read() for a lock that the thread does not hold.
DrawBlocked ==
    \/ game.draw \in {"tick_write", "delete_write"} /\ ~CanWrite(game)
                                                    /\ game.lock.writer # "checker"
    \/ game.draw = "read" /\ ~CanRead(game) /\ game.lock.writer # "checker"

\* C30: after the drop has set end_of_checks_flag the thread of
\* periodicly_check_save_files eventually sees the flag and returns, having replaced the
\* list at most once after the drop; and draw never asks for the write lock while it
\* holds the read lock, so that neither draw nor the thread waits for a lock for ever.
C30_CheckerReturnsAfterDrop ==
    /\ [](game.refreshed_after_drop <= 1)
    /\ [](game.draw \in {"tick_write", "delete_write"} => game.lock.readers = 0)
    /\ [](~DrawBlocked)
    /\ [](CheckerBlocked => game.draw \in {"list", "tick_assign", "delete_assign"})
    /\ (game.end_of_checks_flag ~> (game.checker = "returned"))

\* The value was dropped while the thread slept; the thread has replaced the list once
\* more and has returned.
C30_Witness ==
    /\ game.end_of_checks_flag
    /\ game.checker = "returned"
    /\ game.refreshed_after_drop = 1
    /\ game.draw = "dropped"

====
